---------------------------- MODULE Spec2Model ----------------------------
(***************************************************************************)
(* Model of the file-profiling and PII-detection engine of the data        *)
(* catalog (backend/utils/excel_processor.py), of the asset metadata it    *)
(* suggests from a profile, and of the name-based sensitivity flags of     *)
(* bulk field import (backend/routes/field_compliance.py).                 *)
(*                                                                         *)
(* Text is modelled as a sequence of one-character strings, so that        *)
(* lower-casing, substring search, extension splitting and the three       *)
(* content patterns are computed rather than assumed.                      *)
(***************************************************************************)
EXTENDS Integers, Sequences, FiniteSets, TLC

VARIABLES
    pc,         \* position of the operation in progress
    file,       \* the file handed to analyze_file / validate_file_for_import
    file_info,  \* analyze_file: the file_info dict under construction / returned
    idx,        \* _analyze_excel: 1-based position in excel_file.sheet_names
    outcome,    \* analyze_file: "none", "ok" or the class of the exception raised
    opened,     \* analyze_file: number of open/parse attempts made on the file
    issues,     \* validate_file_for_import: the issues list
    vret,       \* validate_file_for_import: what was returned or raised
    column,     \* _detect_pii: the (series, column_name) it is applied to
    detected,   \* _detect_pii: its result
    fields,     \* bulk_import_fields: the rows of data_fields of the asset
    response,   \* bulk_import_fields: the response of the last request
    frame,      \* _analyze_dataframe: the table it is applied to
    profile,    \* _analyze_dataframe: what it returned or raised
    metadata,   \* generate_asset_metadata: the suggested metadata returned
    tie_order,  \* the order in which the sort of value_counts() of this
                \* installation leaves equally frequent values
    clock,      \* datetime.utcnow() / datetime.now(), in seconds
    history,    \* the analyze_file calls finished so far, oldest first
    handles,    \* the file handles that are open
    uploads,    \* UPLOAD_FOLDER: the content of every file in it, by path
    assets,     \* the committed rows of data_assets
    reqs,       \* the upload requests being served: their local variables
    data_fields,      \* the committed rows of data_fields of one asset
    sessions,         \* the field requests being served: their db.session
    asset,            \* one row of data_assets, as committed
    approval_history  \* the committed rows of approval_history of that asset

vars == <<pc, file, file_info, idx, outcome, opened, issues, vret, column,
          detected, fields, response, frame, profile, metadata,
          tie_order, clock, history, handles, uploads, assets, reqs,
          data_fields, sessions, asset, approval_history>>

None == [k |-> "none"]

\* what the operations of the analysis leave alone
upload_vars == <<uploads, assets, reqs>>
field_vars == <<data_fields, sessions>>
approval_vars == <<asset, approval_history>>
rest_vars == <<clock, history, handles, upload_vars, field_vars, approval_vars>>

\* a process that has served no request yet
RestInit ==
    /\ clock = 0
    /\ history = <<>>
    /\ handles = {}
    /\ uploads = <<>>
    /\ assets = {}
    /\ reqs = <<>>
    /\ data_fields = {}
    /\ sessions = <<>>
    /\ asset = None
    /\ approval_history = <<>>

-----------------------------------------------------------------------------
(* Text helpers                                                            *)

UpperChars == <<"A","B","C","D","E","F","G","H","I","J","K","L","M",
                "N","O","P","Q","R","S","T","U","V","W","X","Y","Z">>
LowerChars == <<"a","b","c","d","e","f","g","h","i","j","k","l","m",
                "n","o","p","q","r","s","t","u","v","w","x","y","z">>
DigitChars == <<"0","1","2","3","4","5","6","7","8","9">>

SeqRange(s) == {s[i] : i \in 1..Len(s)}

Letters == SeqRange(UpperChars) \cup SeqRange(LowerChars)
Digits == SeqRange(DigitChars)

\* the lower-case letter of each upper-case letter
LowerOf ==
    [c \in SeqRange(UpperChars) |->
        LowerChars[CHOOSE i \in 1..Len(UpperChars) : UpperChars[i] = c]]

\* str.lower() on one character
LowerChar(c) == IF c \in DOMAIN LowerOf THEN LowerOf[c] ELSE c

\* str.lower()
Lower(s) == [i \in 1..Len(s) |-> LowerChar(s[i])]

\* Python's `k in s` for strings
Contains(s, k) ==
    \E i \in 0..(Len(s) - Len(k)) : SubSeq(s, i + 1, i + Len(k)) = k

\* s.rfind(c), 1-based, 0 when absent
RFind(s, c) ==
    IF \E i \in 1..Len(s) : s[i] = c
    THEN CHOOSE i \in 1..Len(s) : s[i] = c /\ \A j \in (i+1)..Len(s) : s[j] # c
    ELSE 0

\* os.path.splitext(p)[1]: the text from the last dot of the last path
\* component, unless that component has only dots before it
SplitExt(p) ==
    LET sepIndex == RFind(p, "/")
        dotIndex == RFind(p, ".")
    IN  IF dotIndex > sepIndex
           /\ \E f \in (sepIndex + 1)..(dotIndex - 1) : p[f] # "."
        THEN SubSeq(p, dotIndex, Len(p))
        ELSE <<>>

\* str(n) for a non-negative integer
RECURSIVE IntToStr(_)
IntToStr(n) ==
    IF n < 10 THEN <<DigitChars[n + 1]>>
    ELSE IntToStr(n \div 10) \o <<DigitChars[(n % 10) + 1]>>

-----------------------------------------------------------------------------
(* Cells, series and column names                                          *)

Null == [k |-> "null", s |-> <<>>, n |-> 0]
StrCell(c) == [k |-> "str", s |-> c, n |-> 0]
IntCell(i) == [k |-> "int", s |-> <<>>, n |-> i]
\* a boolean cell; n is 1 for True and 0 for False
BoolCell(b) == [k |-> "bool", s |-> <<>>, n |-> IF b THEN 1 ELSE 0]
\* a date cell (a timestamp at midnight); n is the number of days since
\* 1970-01-01
DateCell(d) == [k |-> "date", s |-> <<>>, n |-> d]

StrName(c) == [k |-> "str", s |-> c, n |-> 0]
IntName(i) == [k |-> "int", s |-> <<>>, n |-> i]

NotNull(c) == c.k # "null"

\* series.dropna()
DropNa(values) == SelectSeq(values, NotNull)

\* series.head(n)
HeadN(values, n) == SubSeq(values, 1, IF Len(values) < n THEN Len(values) ELSE n)

Dtype_NoRowsFloat(values) ==
    IF \A i \in 1..Len(values) : values[i].k \in {"int", "null"}
    THEN IF Len(values) > 0 /\ \A i \in 1..Len(values) : values[i].k = "int"
         THEN "int64" ELSE "float64"
    ELSE IF \A i \in 1..Len(values) : values[i].k = "bool" THEN "bool"
    ELSE IF \A i \in 1..Len(values) : values[i].k \in {"date", "null"}
         THEN "datetime64[ns]"
    ELSE "object"

\* series.dtype as pandas infers it when loading a column: integers without a
\* missing value are int64, integers with missing values (or nothing but
\* missing values) are float64, booleans without a missing value are bool,
\* dates with or without missing values are datetime64[ns], anything else
\* (no rows included) is object
Dtype(values) ==
    IF Len(values) = 0 THEN "object"
    ELSE IF \A i \in 1..Len(values) : values[i].k \in {"int", "null"}
         THEN IF \A i \in 1..Len(values) : values[i].k = "int"
              THEN "int64" ELSE "float64"
    ELSE IF \A i \in 1..Len(values) : values[i].k = "bool" THEN "bool"
    ELSE IF \A i \in 1..Len(values) : values[i].k \in {"date", "null"}
         THEN "datetime64[ns]"
    ELSE "object"

\* n written with at least w digits
Pad(n, w) ==
    LET d == IntToStr(n)
    IN  [i \in 1..(IF Len(d) < w THEN w - Len(d) ELSE 0) |-> "0"] \o d

\* 400-year eras are counted from 0000-03-01; years of an era start in March
YearOfEra(doe) ==
    (doe - doe \div 1460 + doe \div 36524 - doe \div 146096) \div 365

DayOfYear(doe, yoe) == doe - (365 * yoe + yoe \div 4 - yoe \div 100)

CivilOf(era, yoe, doy, mp) ==
    [y |-> yoe + era * 400 + (IF mp < 10 THEN 0 ELSE 1),
     m |-> IF mp < 10 THEN mp + 3 ELSE mp - 9,
     d |-> doy - (153 * mp + 2) \div 5 + 1]

CivilOfEra(era, doe) ==
    CivilOf(era, YearOfEra(doe), DayOfYear(doe, YearOfEra(doe)),
            (5 * DayOfYear(doe, YearOfEra(doe)) + 2) \div 153)

\* the calendar date of day number z, counted from 1970-01-01 (proleptic
\* Gregorian calendar), as [y, m, d]
CivilFromDays(z) ==
    CivilOfEra((z + 719468) \div 146097, (z + 719468) % 146097)

\* YYYY-MM-DD of the calendar date c
DateText(c) ==
    Pad(c.y, 4) \o <<"-">> \o Pad(c.m, 2) \o <<"-">> \o Pad(c.d, 2)

\* YYYY-MM-DD of day number z
DateStr(z) == DateText(CivilFromDays(z))

\* Timestamp.isoformat() of a timestamp at midnight
IsoFormat(z) == DateStr(z) \o <<"T","0","0",":","0","0",":","0","0">>

\* one element of series.astype(str)
AsStr(c, dtype) ==
    IF c.k = "str" THEN c.s
    ELSE IF c.k = "bool"
         THEN IF c.n = 1 THEN <<"T","r","u","e">> ELSE <<"F","a","l","s","e">>
    ELSE IF c.k = "date"
         THEN DateStr(c.n)
              \o (IF dtype = "datetime64[ns]" THEN <<>>
                  ELSE <<" ","0","0",":","0","0",":","0","0">>)
    ELSE IF dtype = "float64" THEN IntToStr(c.n) \o <<".", "0">>
    ELSE IntToStr(c.n)

-----------------------------------------------------------------------------
(* The three content patterns of _detect_pii, as re.search decides them    *)

\* \w
WordChars == Letters \cup Digits \cup {"_"}

IsWordAt(s, p) == p >= 1 /\ p <= Len(s) /\ s[p] \in WordChars

\* \b between the characters at positions p-1 and p
WordBoundary(s, p) == IsWordAt(s, p - 1) # IsWordAt(s, p)

AllIn(s, from, to, cls) == \A i \in from..to : s[i] \in cls

\* [A-Za-z0-9._%+-]
EmailLocalChars == Letters \cup Digits \cup {".", "_", "%", "+", "-"}
\* [A-Za-z0-9.-]
EmailDomainChars == Letters \cup Digits \cup {".", "-"}
\* [A-Z|a-z]
EmailTldChars == Letters \cup {"|"}

\* r'\b[A-Za-z0-9._%+-]+@[A-Za-z0-9.-]+\.[A-Z|a-z]{2,}\b'
email_pattern(s) ==
    \E at \in 1..Len(s) :
        /\ s[at] = "@"
        /\ \E st \in 1..(at - 1) :
              /\ WordBoundary(s, st)
              /\ AllIn(s, st, at - 1, EmailLocalChars)
        /\ \E dot \in (at + 2)..Len(s) :
              /\ s[dot] = "."
              /\ AllIn(s, at + 1, dot - 1, EmailDomainChars)
              /\ \E e \in (dot + 2)..Len(s) :
                    /\ AllIn(s, dot + 1, e, EmailTldChars)
                    /\ WordBoundary(s, e + 1)

\* [-.\s]
PhoneSeparators == {"-", ".", " "}

\* positions after an optional character of cls at position p
OptChar(s, p, cls) ==
    {p} \cup (IF p <= Len(s) /\ s[p] \in cls THEN {p + 1} ELSE {})

\* positions after exactly n digits starting at position p
DigitRun(s, p, n) ==
    IF p + n - 1 <= Len(s) /\ AllIn(s, p, p + n - 1, Digits) THEN {p + n} ELSE {}

\* positions after one character c at position p
OneChar(s, p, c) == IF p <= Len(s) /\ s[p] = c THEN {p + 1} ELSE {}

\* (\+\d{1,3}[-.\s]?)? : positions after the optional country code
PhonePrefix(s, p) ==
    LET plus == OneChar(s, p, "+")
        code == UNION {DigitRun(s, q, n) : q \in plus, n \in 1..3}
    IN  {p} \cup UNION {OptChar(s, q, PhoneSeparators) : q \in code}

\* \(?\d{3}\)?[-.\s]?\d{3}[-.\s]?\d{4} : positions after the number
PhoneNumber(s, p) ==
    LET p1 == OptChar(s, p, {"("})
        p2 == UNION {DigitRun(s, q, 3) : q \in p1}
        p3 == UNION {OptChar(s, q, {")"}) : q \in p2}
        p4 == UNION {OptChar(s, q, PhoneSeparators) : q \in p3}
        p5 == UNION {DigitRun(s, q, 3) : q \in p4}
        p6 == UNION {OptChar(s, q, PhoneSeparators) : q \in p5}
    IN  UNION {DigitRun(s, q, 4) : q \in p6}

\* r'(\+\d{1,3}[-.\s]?)?\(?\d{3}\)?[-.\s]?\d{3}[-.\s]?\d{4}'
phone_pattern(s) ==
    \E st \in 1..Len(s) :
        \E q \in PhonePrefix(s, st) : PhoneNumber(s, q) # {}

\* r'\d{3}-\d{2}-\d{4}'
ssn_pattern(s) ==
    \E st \in 1..Len(s) :
        LET p1 == DigitRun(s, st, 3)
            p2 == UNION {OneChar(s, q, "-") : q \in p1}
            p3 == UNION {DigitRun(s, q, 2) : q \in p2}
            p4 == UNION {OneChar(s, q, "-") : q \in p3}
        IN  UNION {DigitRun(s, q, 4) : q \in p4} # {}

-----------------------------------------------------------------------------
(* _detect_pii                                                             *)

\* the sample size of the content check
SampleSize == 100

pii_indicators == {
    <<"e","m","a","i","l">>, <<"p","h","o","n","e">>, <<"s","s","n">>,
    <<"s","o","c","i","a","l">>, <<"p","a","s","s","p","o","r","t">>,
    <<"l","i","c","e","n","s","e">>, <<"a","d","d","r","e","s","s">>,
    <<"n","a","m","e">>, <<"f","i","r","s","t","n","a","m","e">>,
    <<"l","a","s","t","n","a","m","e">>, <<"s","u","r","n","a","m","e">>,
    <<"d","o","b">>, <<"b","i","r","t","h","d","a","t","e">>,
    <<"b","i","r","t","h","_","d","a","t","e">>,
    <<"c","r","e","d","i","t","_","c","a","r","d">>,
    <<"a","c","c","o","u","n","t">> }

NameHasIndicator_CaseSensitive(chars) ==
    \E indicator \in pii_indicators : Contains(chars, indicator)

\* any(indicator in column_lower for indicator in pii_indicators)
NameHasIndicator(chars) ==
    LET column_lower == Lower(chars)
    IN  \E indicator \in pii_indicators : Contains(column_lower, indicator)

SampleData_NoLimit(values) ==
    LET sample == DropNa(values)
        dtype == Dtype(values)
    IN  [i \in 1..Len(sample) |-> AsStr(sample[i], dtype)]

\* series.dropna().head(100).astype(str)
SampleData(values) ==
    LET sample == HeadN(DropNa(values), SampleSize)
        dtype == Dtype(values)
    IN  [i \in 1..Len(sample) |-> AsStr(sample[i], dtype)]

\* sample_data.str.contains(pattern, regex=True).any(), for the three patterns
\* in turn
SampleMatches(sample) ==
    \/ \E i \in 1..Len(sample) : email_pattern(sample[i])
    \/ \E i \in 1..Len(sample) : phone_pattern(sample[i])
    \/ \E i \in 1..Len(sample) : ssn_pattern(sample[i])

\* _detect_pii(series, column_name).  exc is the class of the exception that
\* leaves the function ("none" when it returns), value the boolean returned,
\* inspected whether the content check was reached.
DetectPii(values, column_name) ==
    IF column_name.k # "str"
    THEN \* column_name.lower() on a non-string header, outside the try block
         [exc |-> "AttributeError", value |-> FALSE, inspected |-> FALSE]
    ELSE IF NameHasIndicator(column_name.s)
    THEN [exc |-> "none", value |-> TRUE, inspected |-> FALSE]
    ELSE [exc |-> "none", value |-> SampleMatches(SampleData(values)),
          inspected |-> TRUE]

-----------------------------------------------------------------------------
(* _analyze_column and _analyze_dataframe                                  *)
(*                                                                         *)
(* A DataFrame is [nrows, columns], columns a sequence of [name, values]   *)
(* with Len(values) = nrows for every column.  A function that can raise   *)
(* returns [exc, info]: exc is "none" and info the value returned, or exc  *)
(* is the class of the exception and info is None.                         *)

\* series.nunique(): the number of distinct non-missing values
NUnique(values) == Cardinality(SeqRange(DropNa(values)))

\* Numbers the profile reports as floats are kept as a count of hundredths:
\* Float(8889) is 88.89.  NaN is the float that is not a number.
Float(h) == [k |-> "float", n |-> h]
NaN == [k |-> "nan", n |-> 0]

\* round(num / den * 10^digits) for den > 0, as a count of the last digit
\* kept; a value halfway between two neighbours goes to the even one
RoundHalfEven(num, den) ==
    LET q == num \div den
        r == num % den
    IN  IF 2 * r < den THEN q
        ELSE IF 2 * r > den THEN q + 1
        ELSE IF q % 2 = 0 THEN q ELSE q + 1

\* the sum of the numbers of seq whose values are the set S: each distinct
\* value is added as often as it occurs
RECURSIVE WeightedSum(_, _)
WeightedSum(seq, S) ==
    IF S = {} THEN 0
    ELSE LET v == CHOOSE x \in S : TRUE
         IN  v * Cardinality({i \in 1..Len(seq) : seq[i] = v})
             + WeightedSum(seq, S \ {v})

\* sum of a sequence of numbers
Sum(seq) == WeightedSum(seq, SeqRange(seq))

Min(S) == CHOOSE x \in S : \A y \in S : x <= y
Max(S) == CHOOSE x \in S : \A y \in S : x >= y

\* the k-th smallest number of a sequence, k in 1..Len(seq)
KthSmallest(seq, k) ==
    CHOOSE v \in SeqRange(seq) :
        /\ Cardinality({i \in 1..Len(seq) : seq[i] < v}) < k
        /\ Cardinality({i \in 1..Len(seq) : seq[i] <= v}) >= k

\* the non-missing numbers of a numeric series
Numbers(values) ==
    LET present == DropNa(values)
    IN  [i \in 1..Len(present) |-> present[i].n]

\* series.mean() rounded to 2 decimals; missing values are skipped
MeanValue(nums) ==
    IF Len(nums) = 0 THEN NaN
    ELSE Float(RoundHalfEven(Sum(nums) * 100, Len(nums)))

\* series.median(): the middle value, or the mean of the two middle values
MedianValue(nums) ==
    LET n == Len(nums)
    IN  IF n = 0 THEN NaN
        ELSE Float((KthSmallest(nums, (n + 1) \div 2)
                    + KthSmallest(nums, n \div 2 + 1)) * 50)

\* series.std() rounded to 2 decimals: the sample standard deviation
\* (divisor n - 1), not a number for fewer than two values
StdValue(nums) ==
    LET n == Len(nums)
        sq == [i \in 1..n |-> nums[i] * nums[i]]
        ss == n * Sum(sq) - Sum(nums) * Sum(nums)
        d == n * (n - 1)
        spread == Max(SeqRange(nums)) - Min(SeqRange(nums))
    IN  IF n < 2 THEN NaN
        ELSE IF ss = 0 THEN Float(0)
        ELSE Float(CHOOSE r \in 0..(100 * spread) :
                       /\ (2 * r - 1) * (2 * r - 1) * d <= 40000 * ss
                       /\ 40000 * ss < (2 * r + 1) * (2 * r + 1) * d)

\* a dict without keys
EmptyBlock == [key \in {} |-> None]

\* _analyze_numeric_column(series); the series is empty when it has no row
AnalyzeNumericColumn(values) ==
    LET nums == Numbers(values)
        empty == Len(values) = 0
    IN  [min_value |-> IF empty THEN None
                       ELSE IF Len(nums) = 0 THEN NaN
                       ELSE Float(100 * Min(SeqRange(nums))),
         max_value |-> IF empty THEN None
                       ELSE IF Len(nums) = 0 THEN NaN
                       ELSE Float(100 * Max(SeqRange(nums))),
         mean_value |-> IF empty THEN None ELSE MeanValue(nums),
         median_value |-> IF empty THEN None ELSE MedianValue(nums),
         std_value |-> IF empty THEN None ELSE StdValue(nums)]

\* value_counts() counts the values in the order in which they are met and
\* sorts the counts in descending order with the default sort of
\* Series.sort_values, which is not a stable one: where equally frequent
\* values end up depends on the pandas and numpy installed and on the
\* processor, and is the same for every call under one installation.  An
\* installation is a tie order: the value first met at position p sorts,
\* among equally frequent values, by TieKey(order, p).
TieOrders ==
    { <<1, 2, 3>>, <<1, 3, 2>>, <<2, 1, 3>>, <<2, 3, 1>>, <<3, 1, 2>>, <<3, 2, 1>> }

\* the installation whose sort keeps equally frequent values as met
StableOrder == <<1, 2, 3>>

TieKey(order, p) == IF p <= Len(order) THEN order[p] ELSE p

\* how many of the distinct values come before v in
\* series.value_counts(): those that occur more often, and of those that
\* occur as often the ones the sort puts first
RankInValueCounts(present, v) ==
    LET Count(x) == Cardinality({i \in 1..Len(present) : present[i] = x})
        First(x) == CHOOSE i \in 1..Len(present) :
                        /\ present[i] = x
                        /\ \A j \in 1..(i - 1) : present[j] # x
        cv == Count(v)
        fv == TieKey(tie_order, First(v))
    IN  Cardinality({x \in SeqRange(present) :
                        \/ Count(x) > cv
                        \/ Count(x) = cv /\ TieKey(tie_order, First(x)) < fv})

\* list(series.value_counts().head(5).to_dict().keys())
MostCommon(values) ==
    LET present == DropNa(values)
        distinct == SeqRange(present)
        shown == IF Cardinality(distinct) < 5 THEN Cardinality(distinct) ELSE 5
    IN  [r \in 1..shown |->
            CHOOSE v \in distinct : RankInValueCounts(present, v) = r - 1]

\* non_null_series.astype(str).str.len()
StrLen(non_null_series) ==
    [i \in 1..Len(non_null_series) |-> Len(AsStr(non_null_series[i], "object"))]

\* the block of a text column with the given lengths of its values
TextBlock(values, lengths) ==
    [min_length |-> Min(SeqRange(lengths)),
     max_length |-> Max(SeqRange(lengths)),
     avg_length |-> Float(RoundHalfEven(Sum(lengths) * 100, Len(lengths))),
     most_common |-> MostCommon(values)]

\* _analyze_text_column(series)
AnalyzeTextColumn(values) ==
    IF Len(DropNa(values)) = 0 THEN EmptyBlock
    ELSE TextBlock(values, StrLen(DropNa(values)))

\* _analyze_datetime_column(series)
AnalyzeDatetimeColumn(values) ==
    LET days == SeqRange(Numbers(values))
    IN  IF days = {} THEN EmptyBlock
        ELSE [min_date |-> IsoFormat(Min(days)),
              max_date |-> IsoFormat(Max(days)),
              date_range_days |-> Max(days) - Min(days)]

TypeSpecific_TextForTheRest(values, dtype) ==
    IF dtype \in {"int64", "float64"} THEN AnalyzeNumericColumn(values)
    ELSE IF dtype = "datetime64[ns]" THEN AnalyzeDatetimeColumn(values)
    ELSE AnalyzeTextColumn(values)

\* the type-specific analysis of _analyze_column: the block merged into the
\* profile for a series of the given dtype
TypeSpecific(values, dtype) ==
    IF dtype \in {"int64", "float64"} THEN AnalyzeNumericColumn(values)
    ELSE IF dtype = "object" THEN AnalyzeTextColumn(values)
    ELSE IF dtype = "datetime64[ns]" THEN AnalyzeDatetimeColumn(values)
    ELSE EmptyBlock

\* _analyze_column(series, column_name)
AnalyzeColumn(values, column_name) ==
    LET pii == DetectPii(values, column_name)
        nulls == Len(values) - Len(DropNa(values))
    IN  IF pii.exc # "none"
        THEN [exc |-> pii.exc, info |-> None]
        ELSE [exc |-> "none",
              info |-> [name |-> column_name,
                        data_type |-> Dtype(values),
                        non_null_count |-> Len(DropNa(values)),
                        null_count |-> nulls,
                        null_percentage |->
                            IF Len(values) > 0
                            THEN Float(RoundHalfEven(nulls * 10000, Len(values)))
                            ELSE Float(0),
                        unique_count |-> NUnique(values),
                        is_unique |-> NUnique(values) = Len(values),
                        contains_pii |-> pii.value]
                       @@ TypeSpecific(values, Dtype(values))]

\* the i-th row of a table
Row(df, i) == [c \in 1..Len(df.columns) |-> df.columns[c].values[i]]

\* df.isnull().sum().sum()
NullCount(df) ==
    LET perColumn == [c \in 1..Len(df.columns) |->
                         df.nrows - Len(DropNa(df.columns[c].values))]
    IN  Sum(perColumn)

DuplicatedRows_KeepNone(df) ==
    Cardinality({i \in 1..df.nrows :
                    \E j \in 1..df.nrows : j # i /\ Row(df, j) = Row(df, i)})

\* int(df.duplicated().sum()): of each group of equal rows every row but
\* the first is marked; a missing value equals a missing value
DuplicatedRows(df) ==
    df.nrows - Cardinality({Row(df, i) : i \in 1..df.nrows})

Completeness_OfRows(df) ==
    LET total_cells == df.nrows
        null_count == NullCount(df)
    IN  IF total_cells > 0
        THEN Float(RoundHalfEven((total_cells - null_count) * 10000, total_cells))
        ELSE Float(0)

\* the completeness of _analyze_dataframe, a percentage with 2 decimals
Completeness(df) ==
    LET total_cells == df.nrows * Len(df.columns)
        null_count == NullCount(df)
    IN  IF total_cells > 0
        THEN Float(RoundHalfEven((total_cells - null_count) * 10000, total_cells))
        ELSE Float(0)

\* sheet_info['data_quality'] as _analyze_dataframe leaves it
DataQuality(df) ==
    [completeness |-> Completeness(df),
     null_count |-> NullCount(df),
     duplicate_rows |-> DuplicatedRows(df)]

\* df.head(5).to_dict('records'), left empty for a table without rows; a
\* record is kept as the row's cells in column order
Preview(df) ==
    IF df.nrows > 0
    THEN [i \in 1..(IF df.nrows < 5 THEN df.nrows ELSE 5) |-> Row(df, i)]
    ELSE <<>>

\* _analyze_dataframe(df, sheet_name): the columns are profiled in order and
\* the first exception of a column leaves the function
AnalyzeDataframe(df, sheet_name) ==
    LET cols == [i \in 1..Len(df.columns) |->
                    AnalyzeColumn(df.columns[i].values, df.columns[i].name)]
    IN  IF \E i \in 1..Len(cols) : cols[i].exc # "none"
        THEN [exc |-> cols[CHOOSE i \in 1..Len(cols) :
                              /\ cols[i].exc # "none"
                              /\ \A j \in 1..(i - 1) : cols[j].exc = "none"].exc,
              info |-> None]
        ELSE [exc |-> "none",
              info |-> [name |-> sheet_name,
                        row_count |-> df.nrows,
                        column_count |-> Len(df.columns),
                        columns |-> [i \in 1..Len(cols) |-> cols[i].info],
                        data_quality |-> DataQuality(df),
                        preview |-> Preview(df)]]

-----------------------------------------------------------------------------
(* Files                                                                   *)
(*                                                                         *)
(* A file is [path, exists, size, corrupt, sheets].  corrupt: opening the  *)
(* file as a whole (pd.ExcelFile, pd.read_csv) fails.  sheets: what the    *)
(* file holds, a sequence of [name, loads, df]; loads is FALSE for a sheet *)
(* that pd.read_excel cannot load.  A CSV file holds one table.            *)

supported_formats == { <<".","x","l","s","x">>, <<".","x","l","s">>,
                       <<".","c","s","v">> }

csv_ext == <<".","c","s","v">>

FileExt_CaseSensitive(f) == SplitExt(f.path)

\* os.path.splitext(file_path)[1].lower()
FileExt(f) == Lower(SplitExt(f.path))

\* pd.read_excel(file_path, sheet_name=sheet_name)
ReadExcel(sheet) ==
    IF sheet.loads THEN [exc |-> "none", df |-> sheet.df]
    ELSE [exc |-> "Exception", df |-> None]

\* the body of the try block of the sheet loop of _analyze_excel
TrySheet(sheet) ==
    LET rd == ReadExcel(sheet)
    IN  IF rd.exc # "none" THEN [exc |-> rd.exc, info |-> None]
        ELSE AnalyzeDataframe(rd.df, sheet.name)

SheetLoopBody_SkipFailed(fi, sheet) ==
    LET r == TrySheet(sheet)
    IN  IF r.exc = "none"
        THEN [fi EXCEPT !.sheets = Append(@, r.info),
                        !.total_rows = @ + r.info.row_count,
                        !.total_columns = @ + r.info.column_count]
        ELSE fi

SheetLoopBody_CountBeforeFail(fi, sheet) ==
    LET r == TrySheet(sheet)
    IN  IF r.exc = "none"
        THEN [fi EXCEPT !.sheets = Append(@, r.info),
                        !.total_rows = @ + r.info.row_count,
                        !.total_columns = @ + r.info.column_count]
        ELSE [fi EXCEPT !.sheets = Append(@,
                  [name |-> sheet.name, error |-> "Could not analyze sheet"]),
                        !.total_rows = @ + (IF sheet.loads THEN sheet.df.nrows ELSE 0),
                        !.total_columns = @ + (IF sheet.loads THEN Len(sheet.df.columns) ELSE 0)]

\* file_info after one iteration of the sheet loop of _analyze_excel
SheetLoopBody(fi, sheet) ==
    LET r == TrySheet(sheet)
    IN  IF r.exc = "none"
        THEN [fi EXCEPT !.sheets = Append(@, r.info),
                        !.total_rows = @ + r.info.row_count,
                        !.total_columns = @ + r.info.column_count]
        ELSE [fi EXCEPT !.sheets = Append(@,
                  [name |-> sheet.name, error |-> "Could not analyze sheet"])]

CsvFileInfo_CountingCalls(f, sheet_info) ==
    [file_path |-> f.path, file_size |-> f.size,
     sheets |-> <<sheet_info>>,
     total_rows |-> sheet_info.row_count + Len(history),
     total_columns |-> sheet_info.column_count,
     analysis_date |-> clock]

\* the dict _analyze_csv returns for the table of a CSV file
CsvFileInfo(f, sheet_info) ==
    [file_path |-> f.path, file_size |-> f.size,
     sheets |-> <<sheet_info>>,
     total_rows |-> sheet_info.row_count,
     total_columns |-> sheet_info.column_count,
     analysis_date |-> clock]

\* the file_info _analyze_excel starts from
ExcelFileInfo(f) ==
    [file_path |-> f.path, file_size |-> f.size, sheets |-> <<>>,
     total_rows |-> 0, total_columns |-> 0, analysis_date |-> clock]

Sheet1 == <<"S","h","e","e","t","1">>

-----------------------------------------------------------------------------
(* analyze_file                                                            *)

\* analyze_file before its try block: the class of the exception raised by
\* the existence check and the extension check, "none" when both pass
PreCheck_ExtFirst(f) ==
    IF FileExt(f) \notin supported_formats THEN "ValueError"
    ELSE IF ~f.exists THEN "FileNotFoundError"
    ELSE "none"

PreCheck(f) ==
    IF ~f.exists THEN "FileNotFoundError"
    ELSE IF FileExt(f) \notin supported_formats THEN "ValueError"
    ELSE "none"

\* analyze_file: the existence check, the extension check and the dispatch
CheckFile ==
    /\ pc = "analyze_file"
    /\ IF PreCheck(file) # "none"
       THEN /\ outcome' = PreCheck(file)
            /\ pc' = "done"
       ELSE /\ outcome' = outcome
            /\ pc' = IF FileExt(file) = csv_ext THEN "_analyze_csv"
                     ELSE "_analyze_excel"
    /\ UNCHANGED <<rest_vars, tie_order, frame, profile, metadata,
                   file, file_info, idx, opened, issues, vret, column,
                   detected, fields, response>>

\* _analyze_csv, and the except clause of analyze_file around it
AnalyzeCsv ==
    /\ pc = "_analyze_csv"
    /\ opened' = opened + 1
    /\ pc' = "done"
    /\ LET r == IF file.corrupt THEN [exc |-> "Exception", info |-> None]
                ELSE AnalyzeDataframe(file.sheets[1].df, Sheet1)
       IN  IF r.exc # "none"
           THEN /\ outcome' = "Exception"
                /\ file_info' = file_info
           ELSE /\ outcome' = "ok"
                /\ file_info' = CsvFileInfo(file, r.info)
    /\ UNCHANGED <<rest_vars, tie_order, frame, profile, metadata,
                   file, idx, issues, vret, column, detected, fields,
                   response>>

\* the handle pd.ExcelFile(file_path) holds on the workbook
ExcelFileHandle(f) == [path |-> f.path, owner |-> "excel_file"]

\* _analyze_excel up to the sheet loop: pd.ExcelFile(file_path), which closes
\* its handle itself when it cannot load the workbook
OpenExcel ==
    /\ pc = "_analyze_excel"
    /\ opened' = opened + 1
    /\ IF file.corrupt
       THEN /\ outcome' = "Exception"
            /\ pc' = "done"
            /\ UNCHANGED <<file_info, idx>>
            /\ handles' = handles
       ELSE /\ file_info' = ExcelFileInfo(file)
            /\ idx' = 1
            /\ pc' = "sheet_loop"
            /\ outcome' = outcome
            /\ handles' = handles \cup {ExcelFileHandle(file)}
    /\ UNCHANGED <<clock, history, upload_vars, field_vars, approval_vars,
                   tie_order, frame, profile, metadata,
                   file, issues, vret, column, detected, fields,
                   response>>

\* one iteration of `for sheet_name in excel_file.sheet_names`
AnalyzeSheet ==
    /\ pc = "sheet_loop"
    /\ idx <= Len(file.sheets)
    /\ opened' = opened + 1
    /\ file_info' = SheetLoopBody(file_info, file.sheets[idx])
    /\ idx' = idx + 1
    /\ UNCHANGED <<rest_vars, tie_order, frame, profile, metadata,
                   pc, file, outcome, issues, vret, column, detected, fields,
                   response>>

\* the open handles when the frame of _analyze_excel is left: excel_file is
\* never closed, so its handle goes only if the interpreter finalizes the
\* object at once, which depends on the interpreter and the pandas release
AtFrameExit(open, h, finalized) == IF finalized THEN open \ {h} ELSE open

\* `return file_info` of _analyze_excel and of analyze_file
ReturnExcel ==
    /\ pc = "sheet_loop"
    /\ idx > Len(file.sheets)
    /\ outcome' = "ok"
    /\ pc' = "done"
    /\ \E finalized \in BOOLEAN :
           handles' = AtFrameExit(handles, ExcelFileHandle(file), finalized)
    /\ UNCHANGED <<clock, history, upload_vars, field_vars, approval_vars,
                   tie_order, frame, profile, metadata,
                   file, file_info, idx, opened, issues, vret, column,
                   detected, fields, response>>

-----------------------------------------------------------------------------
(* generate_asset_metadata                                                 *)

\* os.path.basename(p)
Basename(p) == SubSeq(p, RFind(p, "/") + 1, Len(p))

\* os.path.splitext(p)[0]
SplitRoot(p) == SubSeq(p, 1, Len(p) - Len(SplitExt(p)))

\* the asset name used: the one given, or the file's name without its
\* extension when none (or an empty one) is given
AssetName(file_analysis, asset_name) ==
    IF asset_name = None \/ asset_name = <<>>
    THEN SplitRoot(Basename(file_analysis.file_path))
    ELSE asset_name

\* the entry of schema_info['sheets'] of a sheet
SheetSchema(sheet) ==
    [name |-> sheet.name,
     columns |-> [c \in 1..Len(sheet.columns) |->
                    [name |-> sheet.columns[c].name,
                     data_type |-> sheet.columns[c].data_type,
                     nullable |-> sheet.columns[c].null_count > 0,
                     unique |-> sheet.columns[c].is_unique,
                     contains_pii |-> sheet.columns[c].contains_pii]]]

\* the sheets of file_analysis that carry no 'error' key, in order
ParsedSheets(file_analysis) ==
    LET NoError(sheet) == "error" \notin DOMAIN sheet
    IN  SelectSeq(file_analysis.sheets, NoError)

\* sheet.get('data_quality', {}).get('completeness', 0)
CompletenessOf(sheet) ==
    IF "data_quality" \in DOMAIN sheet THEN sheet.data_quality.completeness
    ELSE Float(0)

\* sheet.get('columns', [])
ColumnsOf(sheet) == IF "columns" \in DOMAIN sheet THEN sheet.columns ELSE <<>>

HighQuality_AtLeast(file_analysis) ==
    \E i \in 1..Len(file_analysis.sheets) :
        CompletenessOf(file_analysis.sheets[i]).n >= 9500

\* any(... completeness > 95 for sheet in file_analysis['sheets'])
HighQuality(file_analysis) ==
    \E i \in 1..Len(file_analysis.sheets) :
        CompletenessOf(file_analysis.sheets[i]).n > 9500

AnyPii_FirstSheetOnly(file_analysis) ==
    /\ Len(file_analysis.sheets) > 0
    /\ \E c \in 1..Len(ColumnsOf(file_analysis.sheets[1])) :
           ColumnsOf(file_analysis.sheets[1])[c].contains_pii

\* any(col.get('contains_pii', False) for sheet in file_analysis['sheets']
\*     for col in sheet.get('columns', []))
AnyPii(file_analysis) ==
    \E i \in 1..Len(file_analysis.sheets) :
        \E c \in 1..Len(ColumnsOf(file_analysis.sheets[i])) :
            ColumnsOf(file_analysis.sheets[i])[c].contains_pii

\* tags + [tag] when cond holds
TagIf(tags, cond, tag) == IF cond THEN Append(tags, tag) ELSE tags

\* the tags list
Tags(file_analysis) ==
    TagIf(TagIf(TagIf(<<>>, HighQuality(file_analysis), "high-quality"),
                AnyPii(file_analysis), "contains-pii"),
          file_analysis.total_rows > 10000, "large-dataset")

QualityScores_ErrorsAsZero(file_analysis) ==
    [i \in 1..Len(file_analysis.sheets) |->
        CompletenessOf(file_analysis.sheets[i]).n]

\* quality_scores: the completeness of every sheet without 'error', in
\* hundredths
QualityScores(file_analysis) ==
    LET parsed == ParsedSheets(file_analysis)
    IN  [i \in 1..Len(parsed) |-> CompletenessOf(parsed[i]).n]

\* round(data_quality_score, 3) as a count of thousandths:
\* sum(quality_scores) / len(quality_scores) / 100, or 0 without scores
DataQualityScore(file_analysis) ==
    LET quality_scores == QualityScores(file_analysis)
    IN  IF Len(quality_scores) > 0
        THEN RoundHalfEven(Sum(quality_scores), Len(quality_scores) * 10)
        ELSE 0

description_prefix ==
    <<"D","a","t","a"," ","a","s","s","e","t"," ","g","e","n","e","r","a",
      "t","e","d"," ","f","r","o","m"," ">>

\* generate_asset_metadata(file_analysis, asset_name); import_date is left
\* out
GenerateAssetMetadata(file_analysis, asset_name) ==
    [asset_name |-> AssetName(file_analysis, asset_name),
     description |-> description_prefix \o Basename(file_analysis.file_path),
     source_system |-> "Excel/CSV Import",
     source_location |-> file_analysis.file_path,
     schema_info |->
        [sheets |-> [i \in 1..Len(ParsedSheets(file_analysis)) |->
                        SheetSchema(ParsedSheets(file_analysis)[i])]],
     metadata |-> [file_analysis |-> file_analysis,
                   row_count |-> file_analysis.total_rows,
                   column_count |-> file_analysis.total_columns,
                   sheet_count |-> Len(ParsedSheets(file_analysis))],
     tags |-> Tags(file_analysis),
     data_quality_score |-> DataQualityScore(file_analysis),
     is_sensitive |-> AnyPii(file_analysis),
     access_level |-> IF AnyPii(file_analysis) THEN "Restricted" ELSE "Internal"]

\* the asset names handed to generate_asset_metadata
AssetNames == {None, <<>>, <<"S","a","l","e","s">>}

\* generate_asset_metadata applied to the analysis analyze_file returned
GenerateMetadata ==
    /\ pc = "done"
    /\ outcome = "ok"
    /\ \E asset_name \in AssetNames :
           metadata' = GenerateAssetMetadata(file_info, asset_name)
    /\ pc' = "suggested"
    /\ UNCHANGED <<rest_vars, tie_order, frame, profile, file, file_info, idx, outcome, opened,
                   issues, vret, column, detected, fields, response>>

-----------------------------------------------------------------------------
(* validate_file_for_import                                                *)

\* max_size = 50 * 1024 * 1024
max_size == 50 * 1024 * 1024

\* pd.read_csv(file_path, nrows=1) for a .csv path, else
\* pd.read_excel(file_path, nrows=1), which loads the first sheet
ReadFirstRecord(f) ==
    IF f.corrupt THEN "Exception"
    ELSE IF FileExt(f) # csv_ext /\ ~f.sheets[1].loads THEN "Exception"
    ELSE "none"

\* the try/except around the read attempt: [exc, issues] after it
ReadCheck(f, iss) ==
    IF ReadFirstRecord(f) # "none"
    THEN [exc |-> "none", issues |-> Append(iss, "File read error")]
    ELSE [exc |-> "none", issues |-> iss]

\* what `if not os.path.exists(file_path)` returns for a missing file
MissingFileResult(f, iss) ==
    [exc |-> "none", ok |-> FALSE, issues |-> <<"File does not exist">>]

\* `if file_ext not in self.supported_formats: issues.append(...)`
ExtCheck(f, iss) ==
    IF FileExt(f) \notin supported_formats
    THEN Append(iss, "Unsupported file format") ELSE iss

SizeCheck_OnlyFirstIssue(f, iss) ==
    IF iss = <<>> /\ f.size > max_size THEN Append(iss, "File too large") ELSE iss

SizeCheck_AtLeast(f, iss) ==
    IF f.size >= max_size THEN Append(iss, "File too large") ELSE iss

\* `if file_size > max_size: issues.append(...)`
SizeCheck(f, iss) ==
    IF f.size > max_size THEN Append(iss, "File too large") ELSE iss

\* `return len(issues) == 0, issues`
ValidateResult(iss) == [exc |-> "none", ok |-> Len(iss) = 0, issues |-> iss]

ValidateExists ==
    /\ pc = "validate"
    /\ IF ~file.exists
       THEN /\ vret' = MissingFileResult(file, issues)
            /\ pc' = "validated"
       ELSE /\ vret' = vret
            /\ pc' = "validate_ext"
    /\ UNCHANGED <<rest_vars, tie_order, frame, profile, metadata,
                   file, file_info, idx, outcome, opened, issues, column,
                   detected, fields, response>>

ValidateExt ==
    /\ pc = "validate_ext"
    /\ issues' = ExtCheck(file, issues)
    /\ pc' = "validate_size"
    /\ UNCHANGED <<rest_vars, tie_order, frame, profile, metadata,
                   file, file_info, idx, outcome, opened, vret, column,
                   detected, fields, response>>

ValidateSize ==
    /\ pc = "validate_size"
    /\ issues' = SizeCheck(file, issues)
    /\ pc' = "validate_read"
    /\ UNCHANGED <<rest_vars, tie_order, frame, profile, metadata,
                   file, file_info, idx, outcome, opened, vret, column,
                   detected, fields, response>>

ValidateRead ==
    /\ pc = "validate_read"
    /\ opened' = opened + 1
    /\ LET r == ReadCheck(file, issues)
       IN  IF r.exc # "none"
           THEN /\ vret' = [exc |-> r.exc, ok |-> FALSE, issues |-> <<>>]
                /\ pc' = "validated"
                /\ issues' = issues
           ELSE /\ issues' = r.issues
                /\ pc' = "validate_return"
                /\ vret' = vret
    /\ UNCHANGED <<rest_vars, tie_order, frame, profile, metadata,
                   file, file_info, idx, outcome, column, detected, fields,
                   response>>

ValidateReturn ==
    /\ pc = "validate_return"
    /\ vret' = ValidateResult(issues)
    /\ pc' = "validated"
    /\ UNCHANGED <<rest_vars, tie_order, frame, profile, metadata,
                   file, file_info, idx, outcome, opened, issues, column,
                   detected, fields, response>>

-----------------------------------------------------------------------------
(* bulk_import_fields                                                      *)

bulk_pii_keywords == {
    <<"n","a","m","e">>, <<"e","m","a","i","l">>, <<"p","h","o","n","e">>,
    <<"a","d","d","r","e","s","s">>, <<"s","s","n">>,
    <<"s","o","c","i","a","l">>, <<"p","a","s","s","p","o","r","t">>,
    <<"l","i","c","e","n","s","e">> }

bulk_phi_keywords == {
    <<"m","e","d","i","c","a","l">>, <<"h","e","a","l","t","h">>,
    <<"d","i","a","g","n","o","s","i","s">>,
    <<"t","r","e","a","t","m","e","n","t">>, <<"p","a","t","i","e","n","t">>,
    <<"p","r","e","s","c","r","i","p","t","i","o","n">> }

bulk_pci_keywords == {
    <<"c","a","r","d">>, <<"c","r","e","d","i","t">>,
    <<"p","a","y","m","e","n","t">>, <<"c","v","v">>,
    <<"e","x","p","i","r","y">>, <<"b","i","l","l","i","n","g">> }

\* any(keyword in field_name.lower() for keyword in [...])
AnyKeyword(chars, keywords) ==
    LET lowered == Lower(chars)
    IN  \E kw \in keywords : Contains(lowered, kw)

\* the sensitivity level derived from the three flags
SensitivityLevel(pii, phi, pci) ==
    IF phi \/ pci THEN "Critical" ELSE IF pii THEN "High" ELSE "Medium"

BulkField_Exclusive(field_name) ==
    LET pii == AnyKeyword(field_name.s, bulk_pii_keywords)
        phi == ~pii /\ AnyKeyword(field_name.s, bulk_phi_keywords)
        pci == ~pii /\ ~phi /\ AnyKeyword(field_name.s, bulk_pci_keywords)
    IN  [field_name |-> field_name,
         sensitivity_level |-> SensitivityLevel(pii, phi, pci),
         contains_pii |-> pii, contains_phi |-> phi, contains_pci |-> pci]

\* the DataField row bulk_import_fields builds for a field name
BulkField(field_name) ==
    LET pii == AnyKeyword(field_name.s, bulk_pii_keywords)
        phi == AnyKeyword(field_name.s, bulk_phi_keywords)
        pci == AnyKeyword(field_name.s, bulk_pci_keywords)
    IN  [field_name |-> field_name,
         sensitivity_level |-> SensitivityLevel(pii, phi, pci),
         contains_pii |-> pii, contains_phi |-> phi, contains_pci |-> pci]

\* `if not field_name`
IsEmptyName(field_name) ==
    \/ field_name.k = "str" /\ field_name.s = <<>>
    \/ field_name.k = "int" /\ field_name.n = 0

\* the loop over the schema's columns: rows is the table as the session sees
\* it (committed rows and the rows added so far), imported the names added.
\* A field name that is not a string makes field_name.lower() raise.
RECURSIVE ImportLoop(_, _, _, _)
ImportLoop(columns, i, rows, imported) ==
    IF i > Len(columns) THEN [exc |-> "none", rows |-> rows, imported |-> imported]
    ELSE LET field_name == columns[i]
         IN  IF IsEmptyName(field_name)
             THEN ImportLoop(columns, i + 1, rows, imported)
             ELSE IF \E r \in rows : r.field_name = field_name
             THEN ImportLoop(columns, i + 1, rows, imported)
             ELSE IF field_name.k # "str"
             THEN [exc |-> "AttributeError", rows |-> rows, imported |-> imported]
             ELSE ImportLoop(columns, i + 1, rows \cup {BulkField(field_name)},
                             Append(imported, field_name))

-----------------------------------------------------------------------------
(* Inputs                                                                  *)

MaxSheets == 3
MaxRuns == 2
MaxCalls == 3
MaxTicks == 2
MaxServed == 4
MaxSchemaCols == 2
MaxRows == 3

SeqsUpTo(S, n) == UNION {[1..m -> S] : m \in 0..n}

T_customer_email_address == <<"C","u","s","t","o","m","e","r","_","E","m","a","i","l","_","A","d","d","r","e","s","s">>
T_id == <<"i","d">>
T_amount == <<"a","m","o","u","n","t">>
T_notes == <<"n","o","t","e","s">>
T_DOB == <<"D","O","B">>
T_account_no == <<"a","c","c","o","u","n","t","_","n","o">>
T_Surname == <<"S","u","r","n","a","m","e">>
T_PHONE == <<"P","H","O","N","E">>
T_email == <<"e","m","a","i","l">>
T_dob == <<"d","o","b">>
T_patient_id == <<"p","a","t","i","e","n","t","_","i","d">>
T_patient_email == <<"P","a","t","i","e","n","t","_","E","m","a","i","l">>
T_card_number == <<"c","a","r","d","_","n","u","m","b","e","r">>
T_hello == <<"h","e","l","l","o">>
T_bob == <<"b","o","b","@","e","x","a","m","p","l","e",".","c","o","m">>
T_ann == <<"a","n","n","@","e","x","a","m","p","l","e",".","o","r","g">>
T_ssn_value == <<"1","2","3","-","4","5","-","6","7","8","9">>
T_phone_value == <<"5","5","5","-","1","2","3","-","4","5","6","7">>

\* column names _detect_pii is applied to: with and without a keyword, in
\* either case, and a numeric header as a spreadsheet can have
ClassifyNames ==
    { StrName(T_customer_email_address), StrName(T_id), StrName(T_amount),
      StrName(T_notes), StrName(T_DOB), StrName(T_account_no),
      StrName(T_Surname), StrName(T_PHONE), IntName(2020) }

ClassifyValues ==
    { Null, StrCell(T_hello), StrCell(T_bob), StrCell(T_ssn_value),
      IntCell(1234567890) }

\* run lengths around the sample size
RunLengths == {1, SampleSize - 1, SampleSize}

ClassifyColumns ==
    [name : ClassifyNames,
     runs : SeqsUpTo([v : ClassifyValues, n : RunLengths], MaxRuns)]

\* the tables a sheet or a CSV file can hold
DfScenario ==
    [nrows |-> 3,
     columns |-> << [name |-> StrName(T_id),
                     values |-> <<IntCell(1), IntCell(2), IntCell(3)>>],
                    [name |-> StrName(T_email),
                     values |-> <<StrCell(T_bob), StrCell(T_ann), StrCell(T_bob)>>],
                    [name |-> StrName(T_amount),
                     values |-> <<IntCell(10), Null, IntCell(30)>>] >>]

DfYears ==
    [nrows |-> 2,
     columns |-> << [name |-> StrName(T_notes),
                     values |-> <<StrCell(T_hello), StrCell(T_hello)>>],
                    [name |-> IntName(2020),
                     values |-> <<IntCell(1), IntCell(2)>>] >>]

DfNoRows ==
    [nrows |-> 0,
     columns |-> << [name |-> StrName(T_Surname), values |-> <<>>] >>]

DfNotes ==
    [nrows |-> 4,
     columns |-> << [name |-> StrName(T_notes),
                     values |-> <<StrCell(T_hello), Null,
                                  StrCell(T_phone_value), StrCell(T_hello)>>] >>]

\* the cells a loaded column of each kind can hold
ColumnCells ==
    { {Null, IntCell(1), IntCell(4)},
      {Null, StrCell(T_hello), StrCell(T_bob)},
      {Null, BoolCell(TRUE), BoolCell(FALSE)},
      {Null, DateCell(19723), DateCell(19782)} }

\* the columns of n rows
ColumnsOfLen(n) == UNION { [1..n -> cells] : cells \in ColumnCells }

FrameNames == {StrName(T_notes), StrName(T_Surname), IntName(2020)}

\* the tables _analyze_dataframe is applied to: up to MaxRows rows, a first
\* column of any kind and, in some, a second column of numbers
SheetFrames ==
    {DfScenario} \cup
    UNION { [nrows : {n},
             columns : { <<[name |-> nm, values |-> v]>> :
                            nm \in FrameNames, v \in ColumnsOfLen(n) }
                       \cup
                       { <<[name |-> nm, values |-> v],
                           [name |-> StrName(T_amount), values |-> w]>> :
                            nm \in FrameNames, v \in ColumnsOfLen(n),
                            w \in [1..n -> {Null, IntCell(1)}] }]
            : n \in 0..MaxRows }

\* a table without missing values and without personal data
DfClean ==
    [nrows |-> 2,
     columns |-> << [name |-> StrName(T_id),
                     values |-> <<IntCell(1), IntCell(2)>>],
                    [name |-> StrName(T_amount),
                     values |-> <<IntCell(10), IntCell(30)>>] >>]

\* 20 cells, one of them missing
DfNinetyFive ==
    [nrows |-> 10,
     columns |-> << [name |-> StrName(T_id),
                     values |-> [i \in 1..10 |-> IntCell(i)]],
                    [name |-> StrName(T_amount),
                     values |-> [i \in 1..10 |->
                                    IF i = 4 THEN Null ELSE IntCell(10)]] >>]

\* a table of n rows with one column of text
DfRows(n) ==
    [nrows |-> n,
     columns |-> << [name |-> StrName(T_notes),
                     values |-> [i \in 1..n |-> StrCell(T_hello)]] >>]

CsvTables ==
    {DfScenario, DfNoRows, DfNotes, DfClean, DfNinetyFive,
     DfRows(10000), DfRows(15000)}
SheetTables == {DfScenario, DfYears, DfNoRows, DfNotes, DfClean}

\* the name of the i-th sheet of a workbook
SheetName(i) == <<"S","h","e","e","t">> \o IntToStr(i)

\* the sheets of a workbook: each loads into a table or fails to load
SheetContents ==
    [loads : {TRUE}, df : SheetTables] \cup [loads : {FALSE}, df : {None}]

Workbooks ==
    UNION { { [i \in 1..m |-> [name |-> SheetName(i), loads |-> c[i].loads,
                               df |-> c[i].df]] : c \in [1..m -> SheetContents] }
            : m \in 1..MaxSheets }

CsvPaths == { <<"d","a","t","a",".","c","s","v">>, <<"D","A","T","A",".","C","S","V">> }
ExcelPaths == { <<"b","o","o","k",".","x","l","s","x">>, <<"u","p","/","v","1",".","2","/","B","o","o","k",".","X","L","S">> }
OtherPaths == { <<"n","o","t","e","s",".","t","x","t">>, <<"d","a","t","a",".","c","s","v",".","z","i","p">>, <<"R","E","A","D","M","E">>, <<".","c","s","v">> }
Paths == CsvPaths \cup ExcelPaths \cup OtherPaths

FileSizes == {2048, max_size - 1, max_size, max_size + 1}

OneSheet(df) == << [name |-> Sheet1, loads |-> TRUE, df |-> df] >>

\* the files an operation can be handed
Files(sizes) ==
    [path : Paths, exists : {FALSE}, size : {0}, corrupt : {FALSE},
     sheets : {<<>>}]
    \cup [path : CsvPaths, exists : {TRUE}, size : sizes, corrupt : {TRUE},
          sheets : {<<>>}]
    \cup [path : CsvPaths, exists : {TRUE}, size : sizes, corrupt : {FALSE},
          sheets : {OneSheet(df) : df \in CsvTables}]
    \cup [path : ExcelPaths \cup OtherPaths, exists : {TRUE}, size : sizes,
          corrupt : {TRUE}, sheets : {<<>>}]
    \cup [path : ExcelPaths, exists : {TRUE}, size : sizes, corrupt : {FALSE},
          sheets : Workbooks]
    \cup [path : OtherPaths, exists : {TRUE}, size : sizes, corrupt : {FALSE},
          sheets : {OneSheet(DfNotes)}]

\* field names of a schema handed to bulk import
BulkNames ==
    { StrName(T_email), StrName(T_dob), StrName(T_patient_email),
      StrName(T_patient_id), StrName(T_card_number), StrName(<<>>),
      IntName(2020) }

BulkSchemas ==
    [format : {"columns_dict", "list"}, columns : SeqsUpTo(BulkNames, MaxSchemaCols)]
    \cup [format : {"none", "other_dict"}, columns : {<<>>}]

\* bulk_import_fields for an asset whose schema_info is schema:
\* [format, columns], format "none" for an asset without schema_info,
\* "columns_dict" for a dict with a 'columns' key, "list" for a list and
\* "other_dict" for any other dict
BulkImport ==
    /\ pc = "bulk_import"
    /\ \E schema \in BulkSchemas :
          IF schema.format = "none"
          THEN /\ response' = [status |-> 400, imported_fields |-> <<>>]
               /\ fields' = fields
          ELSE IF schema.format \notin {"columns_dict", "list"}
          THEN /\ response' = [status |-> 400, imported_fields |-> <<>>]
               /\ fields' = fields
          ELSE LET r == ImportLoop(schema.columns, 1, fields, <<>>)
               IN  IF r.exc = "none"
                   THEN \* db.session.commit()
                        /\ fields' = r.rows
                        /\ response' = [status |-> 200,
                                        imported_fields |-> r.imported]
                   ELSE \* db.session.rollback()
                        /\ fields' = fields
                        /\ response' = [status |-> 500,
                                        imported_fields |-> <<>>]
    /\ UNCHANGED <<rest_vars, tie_order, frame, profile, metadata,
                   pc, file, file_info, idx, outcome, opened, issues, vret,
                   column, detected>>

-----------------------------------------------------------------------------
(* _detect_pii applied to one column                                       *)

\* the values of a column given as runs [v, n] of n equal values
RECURSIVE Expand(_)
Expand(runs) ==
    IF runs = <<>> THEN <<>>
    ELSE [i \in 1..Head(runs).n |-> Head(runs).v] \o Expand(Tail(runs))

Classify ==
    /\ pc = "_detect_pii"
    /\ detected' = DetectPii(Expand(column.runs), column.name)
    /\ pc' = "classified"
    /\ UNCHANGED <<rest_vars, tie_order, frame, profile, metadata,
                   file, file_info, idx, outcome, opened, issues, vret,
                   column, fields, response>>

-----------------------------------------------------------------------------
(* Specifications                                                          *)

\* _analyze_dataframe applied to a table
ProfileSheet ==
    /\ pc = "_analyze_dataframe"
    /\ profile' = AnalyzeDataframe(frame, Sheet1)
    /\ pc' = "profiled"
    /\ UNCHANGED <<rest_vars, tie_order, frame, metadata, file, file_info, idx, outcome, opened, issues,
                   vret, column, detected, fields, response>>

-----------------------------------------------------------------------------
(* The upload routes: POST /analyze, POST /import, POST /validate          *)

\* Config.ALLOWED_EXTENSIONS
ALLOWED_EXTENSIONS ==
    { <<"x","l","s","x">>, <<"x","l","s">>, <<"c","s","v">>,
      <<"j","s","o","n">> }

\* Config.MAX_CONTENT_LENGTH
MAX_CONTENT_LENGTH == 16 * 1024 * 1024

\* a character that is not ASCII and has no ASCII decomposition
NonAscii == "U+62A5"

\* the characters secure_filename keeps
FilenameChars == Letters \cup Digits \cup {"_", ".", "-"}

\* "_".join(filename.split()): the words of s joined by one underscore
RECURSIVE JoinWords(_, _, _)
JoinWords(s, i, acc) ==
    IF i > Len(s) THEN acc
    ELSE IF s[i] # " " THEN JoinWords(s, i + 1, Append(acc, s[i]))
    ELSE IF acc # <<>> /\ s[i - 1] # " " /\ \E j \in (i + 1)..Len(s) : s[j] # " "
    THEN JoinWords(s, i + 1, Append(acc, "_"))
    ELSE JoinWords(s, i + 1, acc)

\* s.strip(chars)
Strip(s, chars) ==
    LET kept == {i \in 1..Len(s) : s[i] \notin chars}
    IN  IF kept = {} THEN <<>>
        ELSE SubSeq(s, CHOOSE i \in kept : \A j \in kept : i <= j,
                       CHOOSE i \in kept : \A j \in kept : i >= j)

\* werkzeug.utils.secure_filename: non-ASCII characters are dropped, path
\* separators become spaces, the words are joined by underscores, every
\* character but letters, digits, "_", "." and "-" is removed, and leading
\* and trailing dots and underscores are stripped
SecureFilename(filename) ==
    LET IsAscii(c) == c # NonAscii
        ascii == SelectSeq(filename, IsAscii)
        spaced == [i \in 1..Len(ascii) |-> IF ascii[i] = "/" THEN " " ELSE ascii[i]]
        IsKept(c) == c \in FilenameChars
    IN  Strip(SelectSeq(JoinWords(spaced, 1, <<>>), IsKept), {".", "_"})

\* seconds of the clock: datetime.now() is read in ticks of half a second
TicksPerSecond == 2

\* datetime.now().strftime('%Y%m%d_%H%M%S') at clock value t
StrfTime(t) ==
    LET secs == t \div TicksPerSecond
        c == CivilFromDays(secs \div 86400)
        rest == secs % 86400
    IN  Pad(c.y, 4) \o Pad(c.m, 2) \o Pad(c.d, 2) \o <<"_">>
        \o Pad(rest \div 3600, 2) \o Pad((rest % 3600) \div 60, 2)
        \o Pad(rest % 60, 2)

\* UPLOAD_FOLDER
upload_dir == <<"u","p","l","o","a","d","s">>

\* os.path.join(upload_dir, f"{timestamp}_{filename}")
SavedPath(t, filename) ==
    upload_dir \o <<"/">> \o StrfTime(t) \o <<"_">> \o filename

\* filename.rsplit('.', 1)[0]
RSplitDot(filename) ==
    IF RFind(filename, ".") = 0 THEN filename
    ELSE SubSeq(filename, 1, RFind(filename, ".") - 1)

\* file.save(file_path): the folder with the upload written at path
Save(folder, path, content) ==
    [q \in DOMAIN folder \cup {path} |->
        IF q = path THEN content ELSE folder[q]]

\* os.remove(file_path)
Remove(folder, path) == [q \in DOMAIN folder \ {path} |-> folder[q]]

\* the file the processor finds at path
FileAt(folder, path) ==
    IF path \in DOMAIN folder
    THEN [path |-> path, exists |-> TRUE, size |-> folder[path].size,
          corrupt |-> folder[path].corrupt, sheets |-> folder[path].sheets]
    ELSE [path |-> path, exists |-> FALSE, size |-> 0, corrupt |-> FALSE,
          sheets |-> <<>>]

\* processor.validate_file_for_import(file_path): [ok, issues]
ValidateFileForImport(f) ==
    IF ~f.exists THEN MissingFileResult(f, <<>>)
    ELSE ValidateResult(ReadCheck(f, SizeCheck(f, ExtCheck(f, <<>>))).issues)

\* the sheet loop of _analyze_excel from sheet i on
RECURSIVE SheetLoop(_, _, _)
SheetLoop(fi, sheets, i) ==
    IF i > Len(sheets) THEN fi
    ELSE SheetLoop(SheetLoopBody(fi, sheets[i]), sheets, i + 1)

\* _analyze_csv(file_path)
AnalyzeCsvFile(f) ==
    LET r == AnalyzeDataframe(f.sheets[1].df, Sheet1)
    IN  IF r.exc # "none" THEN [exc |-> "Exception", info |-> None]
        ELSE [exc |-> "none", info |-> CsvFileInfo(f, r.info)]

\* processor.analyze_file(file_path): [exc, info]
AnalyzeFileResult(f) ==
    IF PreCheck(f) # "none" THEN [exc |-> PreCheck(f), info |-> None]
    ELSE IF f.corrupt THEN [exc |-> "Exception", info |-> None]
    ELSE IF FileExt(f) = csv_ext THEN AnalyzeCsvFile(f)
    ELSE [exc |-> "none", info |-> SheetLoop(ExcelFileInfo(f), f.sheets, 1)]

\* the file names uploads carry
UploadNames ==
    { <<>>,
      <<"d","a","t","a",".","c","s","v">>,
      <<"b","o","o","k",".","x","l","s","x">>,
      <<"b","o","o","k",".","x","l","s">>,
      <<"n","o","t","e","s",".","t","x","t">>,
      <<NonAscii, ".","c","s","v">> }

\* the file names sent to POST /import
ImportNames ==
    { <<>>,
      <<"m","y"," ","d","a","t","a",".","c","s","v">> }

\* what an uploaded file holds
UploadContents ==
    { [size |-> 2048, corrupt |-> FALSE, sheets |-> OneSheet(DfScenario)],
      [size |-> 1024, corrupt |-> FALSE, sheets |-> OneSheet(DfClean)],
      [size |-> 512, corrupt |-> TRUE, sheets |-> <<>>] }

UploadSizes == {MAX_CONTENT_LENGTH, MAX_CONTENT_LENGTH + 1}

\* the asset_data of the JSON body of POST /import: <<>> for a missing key,
\* <<v>> for a key of value v
AssetDatas ==
    { [asset_name |-> <<>>, is_sensitive |-> <<>>, access_level |-> <<>>],
      [asset_name |-> << <<"S","a","l","e","s">> >>, is_sensitive |-> <<FALSE>>,
       access_level |-> <<"Public">>],
      [asset_name |-> << <<>> >>, is_sensitive |-> <<TRUE>>,
       access_level |-> <<"Confidential">>] }

\* the requests served at the same time
Requests == {1, 2}

\* [issue] when cond holds
IssueWhen(cond, issue) == IF cond THEN <<issue>> ELSE <<>>

\* a request that has not arrived yet
NoRequest ==
    [route |-> "none", pc |-> "idle", filename |-> <<>>, file_path |-> <<>>,
     analysis |-> None, asset_data |-> None, status |-> 0, error |-> "none"]

\* request r arrives: the requests are numbered in the order of arrival
Arrives(r) ==
    /\ reqs[r].pc = "idle"
    /\ \A q \in Requests : q < r => reqs[q].pc # "idle"

\* a request answered with status and error
Answered(req, status, error) ==
    [req EXCEPT !.pc = "responded", !.status = status, !.error = error]

\* the state of the analysis, and what the steps of the upload routes leave
\* alone
analysis_vars ==
    <<pc, file, file_info, idx, outcome, opened, issues, vret, column,
      detected, fields, response, frame, profile, metadata, tie_order,
      history, handles>>
beside_upload == <<analysis_vars, field_vars, approval_vars>>

\* the response to an analysis a: 500 when it raised
Analyzed(req, a) ==
    IF a.exc # "none"
    THEN Answered(req, 500, "File analysis failed")
    ELSE [Answered(req, 200, "none") EXCEPT !.analysis = a]

\* the response of POST /analyze once the extension check has passed: the
\* upload is saved, validated, analysed and removed again (lines 32-76)
AnalyzeSaved(req, f) ==
    IF ~ValidateFileForImport(f).ok
    THEN Answered(req, 400, "File validation failed")
    ELSE Analyzed(req, AnalyzeFileResult(f))

\* POST /analyze
AnalyzeRoute(r) ==
    /\ Arrives(r)
    /\ \E has_file \in BOOLEAN, name \in UploadNames, content \in UploadContents :
          LET filename == SecureFilename(name)
              file_ext == Lower(SplitExt(filename))
              file_path == SavedPath(clock, filename)
              req == [reqs[r] EXCEPT !.route = "analyze", !.filename = name]
          IN  IF ~has_file
              THEN /\ reqs' = [reqs EXCEPT ![r] =
                                  Answered(req, 400, "No file provided")]
                   /\ uploads' = uploads
              ELSE IF name = <<>>
              THEN /\ reqs' = [reqs EXCEPT ![r] =
                                  Answered(req, 400, "No file selected")]
                   /\ uploads' = uploads
              ELSE IF file_ext \notin ALLOWED_EXTENSIONS
              THEN /\ reqs' = [reqs EXCEPT ![r] =
                                  Answered(req, 400, "File type not allowed")]
                   /\ uploads' = uploads
              ELSE /\ reqs' = [reqs EXCEPT ![r] =
                                  AnalyzeSaved([req EXCEPT !.file_path = file_path],
                                      FileAt(Save(uploads, file_path, content),
                                             file_path))]
                   /\ uploads' = Remove(uploads, file_path)
    /\ UNCHANGED <<beside_upload, clock, assets>>

\* POST /validate: the issues are the extension issue and the size issue
ValidateRoute(r) ==
    /\ Arrives(r)
    /\ \E has_file \in BOOLEAN, name \in UploadNames, size \in UploadSizes :
          LET filename == SecureFilename(name)
              file_ext == Lower(SplitExt(filename))
              req == [reqs[r] EXCEPT !.route = "validate", !.filename = name]
          IN  IF ~has_file
              THEN reqs' = [reqs EXCEPT ![r] =
                               Answered(req, 400, "No file provided")]
              ELSE IF name = <<>>
              THEN reqs' = [reqs EXCEPT ![r] =
                               Answered(req, 400, "No file selected")]
              ELSE reqs' = [reqs EXCEPT ![r] =
                               [Answered(req, 200, "none") EXCEPT !.analysis =
                                   [is_valid |-> /\ file_ext \in ALLOWED_EXTENSIONS
                                                 /\ size <= MAX_CONTENT_LENGTH,
                                    issues |->
                                       IssueWhen(file_ext \notin ALLOWED_EXTENSIONS,
                                                 "File type not allowed")
                                       \o IssueWhen(size > MAX_CONTENT_LENGTH,
                                                    "File too large")]]]
    /\ UNCHANGED <<beside_upload, clock, uploads, assets>>

\* asset_data.get(key, default)
GetOr(value, default) == IF value = <<>> THEN default ELSE value[1]

\* the DataAsset built by POST /import (lines 112-177); asset_id is the
\* autoincrement key, submitted_by_user_id stands for the request
ImportedAsset(r, filename, file_path, analysis, asset_data, asset_id) ==
    LET contains_pii == AnyPii(analysis)
    IN  [asset_id |-> asset_id,
         asset_name |-> IF GetOr(asset_data.asset_name, <<>>) = <<>>
                        THEN RSplitDot(filename)
                        ELSE GetOr(asset_data.asset_name, <<>>),
         source_system |-> "File Import",
         source_location |-> file_path,
         row_count |-> analysis.total_rows,
         column_count |-> analysis.total_columns,
         sheet_count |-> Len(ParsedSheets(analysis)),
         submitted_by_user_id |-> r,
         data_quality_score |-> DataQualityScore(analysis),
         approval_status |-> "Pending",
         is_sensitive |-> contains_pii \/ GetOr(asset_data.is_sensitive, FALSE),
         access_level |-> IF contains_pii THEN "Restricted"
                          ELSE GetOr(asset_data.access_level, "Internal")]

\* POST /import up to the try block: the checks of the body and of the file
ImportBegin(r) ==
    /\ Arrives(r)
    /\ \E has_data \in BOOLEAN, has_file \in BOOLEAN, name \in ImportNames :
          LET req == [reqs[r] EXCEPT !.route = "import", !.filename = name]
          IN  reqs' = [reqs EXCEPT ![r] =
                  IF ~has_data THEN Answered(req, 400, "No data provided")
                  ELSE IF ~has_file THEN Answered(req, 400, "No file provided")
                  ELSE IF name = <<>> THEN Answered(req, 400, "No file selected")
                  ELSE [req EXCEPT !.pc = "save"]]
    /\ UNCHANGED <<beside_upload, clock, uploads, assets>>

\* lines 96-105: the path is made of the second of the clock and of the
\* secured file name, and the upload is written there
ImportSave(r) ==
    /\ reqs[r].pc = "save"
    /\ \E content \in UploadContents :
          LET file_path == SavedPath(clock, SecureFilename(reqs[r].filename))
          IN  /\ uploads' = Save(uploads, file_path, content)
              /\ reqs' = [reqs EXCEPT ![r].file_path = file_path,
                                      ![r].pc = "analyze"]
    /\ UNCHANGED <<beside_upload, clock, assets>>

\* line 109: processor.analyze_file(file_path) on what the path holds now
ImportAnalyze(r) ==
    /\ reqs[r].pc = "analyze"
    /\ LET a == AnalyzeFileResult(FileAt(uploads, reqs[r].file_path))
       IN  reqs' = [reqs EXCEPT ![r].analysis = a,
                                ![r].pc = IF a.exc = "none" THEN "commit"
                                          ELSE "except"]
    /\ UNCHANGED <<beside_upload, clock, uploads, assets>>

\* lines 112-180: the asset is built, added and committed; the commit can
\* fail
ImportCommit(r) ==
    /\ reqs[r].pc = "commit"
    /\ \E asset_data \in AssetDatas, committed \in BOOLEAN :
          IF committed
          THEN /\ assets' = assets \cup
                    {ImportedAsset(r, SecureFilename(reqs[r].filename),
                                   reqs[r].file_path, reqs[r].analysis.info,
                                   asset_data, Cardinality(assets) + 1)}
               /\ reqs' = [reqs EXCEPT ![r].asset_data = asset_data,
                                       ![r].pc = "respond"]
          ELSE /\ assets' = assets
               /\ reqs' = [reqs EXCEPT ![r].asset_data = asset_data,
                                       ![r].pc = "except"]
    /\ UNCHANGED <<beside_upload, clock, uploads>>

\* lines 182-188, still inside the try block: the log line and the response
\* built from asset.to_dict(), which reads the row and its relations back
\* from the database and can fail
ImportRespond(r) ==
    /\ reqs[r].pc = "respond"
    /\ \E built \in BOOLEAN :
          reqs' = [reqs EXCEPT ![r] =
                      IF built THEN Answered(reqs[r], 201, "none")
                      ELSE [reqs[r] EXCEPT !.pc = "except"]]
    /\ UNCHANGED <<beside_upload, clock, uploads, assets>>

\* lines 190-197: db.session.rollback(), which discards what the session
\* has not committed, and the removal of the file at file_path
ImportExcept(r) ==
    /\ reqs[r].pc = "except"
    /\ uploads' = Remove(uploads, reqs[r].file_path)
    /\ reqs' = [reqs EXCEPT ![r] = Answered(reqs[r], 500, "File import failed")]
    /\ UNCHANGED <<beside_upload, clock, assets>>

\* time passes
Tick ==
    /\ pc = "serving"
    /\ clock < MaxTicks
    /\ clock' = clock + 1
    /\ UNCHANGED <<beside_upload, upload_vars>>

\* the upload routes serving the requests
InitUpload ==
    /\ pc = "serving"
    /\ file = None /\ file_info = None /\ idx = 0 /\ outcome = "none"
    /\ opened = 0 /\ issues = <<>> /\ vret = None /\ column = None
    /\ detected = None /\ fields = {} /\ response = None
    /\ frame = None /\ profile = None /\ metadata = None
    /\ tie_order = StableOrder
    /\ clock = 0 /\ history = <<>> /\ handles = {}
    /\ uploads = <<>>
    /\ assets = {}
    /\ reqs = [r \in Requests |-> NoRequest]
    /\ data_fields = {} /\ sessions = <<>>
    /\ asset = None /\ approval_history = <<>>

NextUpload ==
    \/ Tick
    \/ \E r \in Requests :
          \/ AnalyzeRoute(r) \/ ValidateRoute(r)
          \/ ImportBegin(r) \/ ImportSave(r) \/ ImportAnalyze(r)
          \/ ImportCommit(r) \/ ImportRespond(r) \/ ImportExcept(r)

SpecUpload == InitUpload /\ [][NextUpload]_vars

-----------------------------------------------------------------------------
(* The field routes: create_data_field and bulk_import_fields, interleaved *)

beside_fields == <<analysis_vars, clock, upload_vars, approval_vars>>

\* the field requests served at the same time, each in its own db.session
FieldRequests == {1, 2}

\* the field names of the requests
FieldNames == {StrName(T_email), StrName(T_dob), StrName(<<>>), IntName(2020)}

\* the schema_info of the asset at the time of a bulk import
FieldSchemas ==
    [format : {"columns_dict"}, columns : SeqsUpTo(FieldNames, MaxSchemaCols)]
    \cup [format : {"none", "other_dict"}, columns : {<<>>}]

\* the DataField create_data_field builds from a body that gives the name
\* only
CreatedField(field_name) ==
    [field_name |-> field_name, sensitivity_level |-> "Medium",
     contains_pii |-> FALSE, contains_phi |-> FALSE, contains_pci |-> FALSE]

\* a row of data_fields: the field and who created it (0: before the
\* requests)
FieldRow(field, who) == [created_by_user_id |-> who] @@ field

\* a request that has not arrived yet
NoFieldRequest ==
    [op |-> "none", pc |-> "idle", field_name |-> StrName(<<>>),
     columns |-> <<>>, i |-> 0, pending |-> <<>>, imported |-> <<>>,
     status |-> 0]

\* a request answered with status; the db.session ends with it
FieldAnswered(ses, status) ==
    [ses EXCEPT !.pc = "responded", !.status = status]

\* DataField.query.filter_by(asset_id=..., field_name=...).first() is not
\* None: the session sees the committed rows and, flushed before the query,
\* the rows it has added itself
ExistingField(table, pending, field_name) ==
    \/ \E k \in 1..Len(table) : table[k].field_name = field_name
    \/ \E k \in 1..Len(pending) : pending[k].field_name = field_name

UniqueViolation_NoConstraint(table, pending) == FALSE

\* UniqueConstraint('asset_id', 'field_name'): the rows of pending cannot
\* be written to table
UniqueViolation(table, pending) ==
    \/ \E k \in 1..Len(pending) : \E m \in 1..Len(table) :
          pending[k].field_name = table[m].field_name
    \/ \E k, m \in 1..Len(pending) :
          k # m /\ pending[k].field_name = pending[m].field_name

\* request s arrives: the requests are numbered in the order of arrival
FieldArrives(s) ==
    /\ sessions[s].pc = "idle"
    /\ \A q \in FieldRequests : q < s => sessions[q].pc # "idle"

\* create_data_field up to its try block: the body, the required name and
\* the duplicate check
CreateCheck(s) ==
    /\ FieldArrives(s)
    /\ \E has_data \in BOOLEAN, field_name \in FieldNames :
          LET ses == [sessions[s] EXCEPT !.op = "create",
                                         !.field_name = field_name]
          IN  sessions' = [sessions EXCEPT ![s] =
                  IF ~has_data THEN FieldAnswered(ses, 400)
                  ELSE IF IsEmptyName(field_name) THEN FieldAnswered(ses, 400)
                  ELSE IF ExistingField(data_fields, <<>>, field_name)
                  THEN FieldAnswered(ses, 409)
                  ELSE [ses EXCEPT !.pc = "create_commit"]]
    /\ UNCHANGED <<beside_fields, data_fields>>

\* the try block of create_data_field: add, commit, and rollback when the
\* commit fails; after the commit the response is built from
\* field.to_dict(), which reads the row back and can fail
CreateCommit(s) ==
    /\ sessions[s].pc = "create_commit"
    /\ LET row == FieldRow(CreatedField(sessions[s].field_name), s)
       IN  IF UniqueViolation(data_fields, <<row>>)
           THEN /\ data_fields' = data_fields
                /\ sessions' = [sessions EXCEPT ![s] =
                                   FieldAnswered(sessions[s], 500)]
           ELSE /\ data_fields' = Append(data_fields, row)
                /\ \E built \in BOOLEAN :
                      sessions' = [sessions EXCEPT ![s] =
                          FieldAnswered(sessions[s], IF built THEN 201 ELSE 500)]
    /\ UNCHANGED beside_fields

\* bulk_import_fields up to the loop: the schema of the asset and its format
BulkBegin(s) ==
    /\ FieldArrives(s)
    /\ \E schema \in FieldSchemas :
          LET ses == [sessions[s] EXCEPT !.op = "bulk",
                                         !.columns = schema.columns]
          IN  sessions' = [sessions EXCEPT ![s] =
                  IF schema.format \notin {"columns_dict", "list"}
                  THEN FieldAnswered(ses, 400)
                  ELSE [ses EXCEPT !.pc = "loop", !.i = 1]]
    /\ UNCHANGED <<beside_fields, data_fields>>

\* one iteration of `for column_info in columns`; an exception ends the
\* request in the except clause, whose rollback drops the added rows
BulkColumn(s) ==
    /\ sessions[s].pc = "loop"
    /\ sessions[s].i <= Len(sessions[s].columns)
    /\ LET ses == sessions[s]
           field_name == ses.columns[ses.i]
       IN  sessions' = [sessions EXCEPT ![s] =
               IF IsEmptyName(field_name) THEN [ses EXCEPT !.i = @ + 1]
               ELSE IF ExistingField(data_fields, ses.pending, field_name)
               THEN [ses EXCEPT !.i = @ + 1]
               ELSE IF field_name.k # "str"
               THEN [FieldAnswered(ses, 500) EXCEPT !.pending = <<>>,
                                                    !.imported = <<>>]
               ELSE [ses EXCEPT !.i = @ + 1,
                        !.pending = Append(@, FieldRow(BulkField(field_name), s)),
                        !.imported = Append(@, field_name)]]
    /\ UNCHANGED <<beside_fields, data_fields>>

\* db.session.commit() after the loop, and the except clause when it fails
BulkCommit(s) ==
    /\ sessions[s].pc = "loop"
    /\ sessions[s].i > Len(sessions[s].columns)
    /\ IF UniqueViolation(data_fields, sessions[s].pending)
       THEN /\ data_fields' = data_fields
            /\ sessions' = [sessions EXCEPT ![s] =
                   [FieldAnswered(sessions[s], 500) EXCEPT !.pending = <<>>,
                                                           !.imported = <<>>]]
       ELSE /\ data_fields' = data_fields \o sessions[s].pending
            /\ sessions' = [sessions EXCEPT ![s] =
                   [FieldAnswered(sessions[s], 200) EXCEPT !.pending = <<>>]]
    /\ UNCHANGED beside_fields

\* the fields the asset has before the requests: none, or an email field
\* described by hand
FieldTables ==
    { <<>>,
      << FieldRow([CreatedField(StrName(T_email)) EXCEPT
                      !.sensitivity_level = "Low"], 0) >> }

InitFields ==
    /\ pc = "fields"
    /\ file = None /\ file_info = None /\ idx = 0 /\ outcome = "none"
    /\ opened = 0 /\ issues = <<>> /\ vret = None /\ column = None
    /\ detected = None /\ fields = {} /\ response = None
    /\ frame = None /\ profile = None /\ metadata = None
    /\ tie_order = StableOrder
    /\ clock = 0 /\ history = <<>> /\ handles = {}
    /\ uploads = <<>> /\ assets = {} /\ reqs = <<>>
    /\ data_fields \in FieldTables
    /\ sessions = [s \in FieldRequests |-> NoFieldRequest]
    /\ asset = None /\ approval_history = <<>>

NextFields ==
    \E s \in FieldRequests :
        \/ CreateCheck(s) \/ CreateCommit(s)
        \/ BulkBegin(s) \/ BulkColumn(s) \/ BulkCommit(s)

SpecFields == InitFields /\ [][NextFields]_vars

-----------------------------------------------------------------------------
(* The asset routes: update_asset, approve_asset, reject_asset             *)

beside_approval ==
    <<file, file_info, idx, outcome, opened, issues, vret, column, detected,
      fields, frame, profile, metadata, tie_order, clock, history, handles,
      upload_vars, field_vars>>

\* update_asset: updateable_fields
updateable_fields ==
    {"asset_name", "description", "source_system", "source_location",
     "schema_info", "metadata", "tags", "is_public", "is_sensitive",
     "access_level"}

significant_fields_WithLocation ==
    {"asset_name", "description", "source_system", "schema_info",
     "source_location"}

\* update_asset: significant_fields
significant_fields ==
    {"asset_name", "description", "source_system", "schema_info"}

\* the asset as submitted: approval_status has its column default
SubmittedAsset ==
    [asset_name |-> "Sales", description |-> "Monthly sales",
     source_system |-> "ERP", source_location |-> "//share/sales.xlsx",
     schema_info |-> "v1", is_public |-> FALSE, category_id |-> 1,
     approval_status |-> "Pending", rejection_reason |-> "",
     approved_by_user_id |-> ""]

\* the categories that exist and are active
ActiveCategories == {1, 2}

\* the JSON bodies sent to update_asset: each gives some keys
UpdateBodies ==
    { [asset_name |-> "Sales 2024"],
      [asset_name |-> "Sales"],
      [description |-> "Weekly sales"],
      [source_system |-> "CRM", is_public |-> FALSE],
      [schema_info |-> "v2", source_location |-> "//share/sales.xlsx"],
      [source_location |-> "//share/sales-2.xlsx"],
      [is_public |-> TRUE, category_id |-> 2],
      [asset_name |-> "Sales 2025", category_id |-> 99] }

\* the fields of updateable_fields whose submitted value differs from the
\* stored one
ChangedFields(row, data) ==
    {k \in DOMAIN data \cap updateable_fields : row[k] # data[k]}

\* `if 'category_id' in data` and differing: the category is looked up
CategoryChanged(row, data) ==
    "category_id" \in DOMAIN data /\ data.category_id # row.category_id

\* the category of the body does not exist or is not active
InvalidCategory(row, data) ==
    /\ CategoryChanged(row, data)
    /\ data.category_id # 0
    /\ data.category_id \notin ActiveCategories

\* the keys of the changes dict of update_asset
Changes(row, data) ==
    ChangedFields(row, data)
    \cup (IF CategoryChanged(row, data) THEN {"category_id"} ELSE {})
    \cup (IF /\ ChangedFields(row, data) \cap significant_fields # {}
             /\ row.approval_status = "Approved"
          THEN {"approval_status"} ELSE {})

\* the row after the assignments of update_asset
Updated(row, data) ==
    [k \in DOMAIN row |->
        IF k \in ChangedFields(row, data) THEN data[k]
        ELSE IF k = "category_id" /\ CategoryChanged(row, data)
        THEN data.category_id
        ELSE IF k = "approval_status" /\ "approval_status" \in Changes(row, data)
        THEN "Pending"
        ELSE row[k]]

\* ApprovalHistory.log_action(...)
LogAction(action, previous_status, new_status, changes_summary) ==
    [action |-> action, previous_status |-> previous_status,
     new_status |-> new_status, changes_summary |-> changes_summary]

\* the response of a route: the request served, its status and how many
\* requests have been served
Response(op, status, keys, reason) ==
    [op |-> op, status |-> status, keys |-> keys, reason |-> reason,
     served |-> response.served + 1]

\* PUT /<asset_id>: without a body nothing is done; an invalid category
\* ends the request before the commit, and the session is discarded with
\* its changes; a failing commit is rolled back
UpdateAsset ==
    /\ pc = "assets"
    /\ response.served < MaxServed
    /\ \E has_data \in BOOLEAN, data \in UpdateBodies, committed \in BOOLEAN :
          IF ~has_data
          THEN /\ response' = Response("update", 400, {}, <<>>)
               /\ UNCHANGED approval_vars
          ELSE IF InvalidCategory(asset, data)
          THEN /\ response' = Response("update", 400, DOMAIN data, <<>>)
               /\ UNCHANGED approval_vars
          ELSE IF ~committed
          THEN /\ response' = Response("update", 500, DOMAIN data, <<>>)
               /\ UNCHANGED approval_vars
          ELSE /\ response' = Response("update", 200, DOMAIN data, <<>>)
               /\ asset' = Updated(asset, data)
               /\ approval_history' =
                     IF Changes(asset, data) # {}
                     THEN Append(approval_history,
                              LogAction("updated", "",
                                        Updated(asset, data).approval_status,
                                        Changes(asset, data)))
                     ELSE approval_history
    /\ UNCHANGED <<beside_approval, pc>>

CanDecide_UnlessApproved(row) == row.approval_status # "Approved"

\* `if asset.approval_status != 'Pending': return ..., 400` does not hold
CanDecide(row) == row.approval_status = "Pending"

\* POST /<asset_id>/approve
ApproveAsset ==
    /\ pc = "assets"
    /\ response.served < MaxServed
    /\ \E committed \in BOOLEAN :
          IF ~CanDecide(asset)
          THEN /\ response' = Response("approve", 400, {}, <<>>)
               /\ UNCHANGED approval_vars
          ELSE IF ~committed
          THEN /\ response' = Response("approve", 500, {}, <<>>)
               /\ UNCHANGED approval_vars
          ELSE /\ response' = Response("approve", 200, {}, <<>>)
               /\ asset' = [asset EXCEPT !.approval_status = "Approved",
                                         !.approved_by_user_id = "admin"]
               /\ approval_history' =
                     Append(approval_history,
                            LogAction("approved", "Pending", "Approved", {}))
    /\ UNCHANGED <<beside_approval, pc>>

\* the reasons sent to reject_asset: <<>> for a body without the key
Reasons == { <<>>, <<"">>, <<"incomplete schema">> }

\* POST /<asset_id>/reject
RejectAsset ==
    /\ pc = "assets"
    /\ response.served < MaxServed
    /\ \E has_data \in BOOLEAN, reason \in Reasons, committed \in BOOLEAN :
          IF ~CanDecide(asset)
          THEN /\ response' = Response("reject", 400, {}, reason)
               /\ UNCHANGED approval_vars
          ELSE IF ~has_data \/ reason \in {<<>>, <<"">>}
          THEN /\ response' = Response("reject", 400, {}, <<>>)
               /\ UNCHANGED approval_vars
          ELSE IF ~committed
          THEN /\ response' = Response("reject", 500, {}, reason)
               /\ UNCHANGED approval_vars
          ELSE /\ response' = Response("reject", 200, {}, reason)
               /\ asset' = [asset EXCEPT !.approval_status = "Rejected",
                                         !.rejection_reason = reason[1],
                                         !.approved_by_user_id = "admin"]
               /\ approval_history' =
                     Append(approval_history,
                            LogAction("rejected", "Pending", "Rejected", {}))
    /\ UNCHANGED <<beside_approval, pc>>

InitAssets ==
    /\ pc = "assets"
    /\ file = None /\ file_info = None /\ idx = 0 /\ outcome = "none"
    /\ opened = 0 /\ issues = <<>> /\ vret = None /\ column = None
    /\ detected = None /\ fields = {}
    /\ response = [op |-> "none", status |-> 0, keys |-> {}, reason |-> <<>>,
                   served |-> 0]
    /\ frame = None /\ profile = None /\ metadata = None
    /\ tie_order = StableOrder
    /\ clock = 0 /\ history = <<>> /\ handles = {}
    /\ uploads = <<>> /\ assets = {} /\ reqs = <<>>
    /\ data_fields = {} /\ sessions = <<>>
    /\ asset = SubmittedAsset
    /\ approval_history = <<>>

NextAssets == UpdateAsset \/ ApproveAsset \/ RejectAsset

SpecAssets == InitAssets /\ [][NextAssets]_vars

\* analyze_file on one file
InitAnalyze ==
    /\ pc = "analyze_file"
    /\ file \in Files({2048})
    /\ file_info = None /\ idx = 0 /\ outcome = "none" /\ opened = 0
    /\ issues = <<>> /\ vret = None /\ column = None /\ detected = None
    /\ fields = {} /\ response = None
    /\ frame = None /\ profile = None /\ metadata = None
    /\ RestInit
    /\ tie_order \in {StableOrder, <<3, 2, 1>>}

NextAnalyze ==
    CheckFile \/ AnalyzeCsv \/ OpenExcel \/ AnalyzeSheet \/ ReturnExcel
    \/ GenerateMetadata

SpecAnalyze == InitAnalyze /\ [][NextAnalyze]_vars

\* the files analysed one after the other
RepeatFiles ==
    { [path |-> <<"d","a","t","a",".","c","s","v">>, exists |-> TRUE,
       size |-> 2048, corrupt |-> FALSE, sheets |-> OneSheet(DfScenario)],
      [path |-> <<"d","a","t","a",".","c","s","v">>, exists |-> TRUE,
       size |-> 2048, corrupt |-> TRUE, sheets |-> <<>>],
      [path |-> <<"b","o","o","k",".","x","l","s","x">>, exists |-> TRUE,
       size |-> 2048, corrupt |-> FALSE,
       sheets |-> << [name |-> SheetName(1), loads |-> TRUE, df |-> DfNotes],
                     [name |-> SheetName(2), loads |-> FALSE, df |-> None] >>],
      [path |-> <<"b","o","o","k",".","x","l","s","x">>, exists |-> FALSE,
       size |-> 0, corrupt |-> FALSE, sheets |-> <<>>] }

\* the processor instances: the upload routes make a new ExcelDataProcessor
\* for each request, a caller may also keep one
Processors == {1, 2}

\* analyze_file has returned or raised: the caller has its result
RecordCall ==
    /\ pc = "done"
    /\ history' = Append(history, [file |-> file, outcome |-> outcome,
                                   file_info |-> file_info])
    /\ pc' = "returned"
    /\ UNCHANGED <<clock, handles, upload_vars, field_vars, approval_vars,
                   tie_order, frame, profile, metadata,
                   file, file_info, idx, outcome, opened, issues, vret,
                   column, detected, fields, response>>

\* the next call of analyze_file, on the same or on another processor
\* instance: __init__ assigns supported_formats and nothing else, and no
\* method assigns an attribute
AnalyzeAgain ==
    /\ pc = "returned"
    /\ Len(history) < MaxCalls
    /\ \E f \in RepeatFiles, p \in Processors, later \in 0..1 :
          /\ file' = f
          /\ clock' = clock + later
    /\ file_info' = None /\ idx' = 0 /\ outcome' = "none" /\ opened' = 0
    /\ pc' = "analyze_file"
    /\ UNCHANGED <<history, handles, upload_vars, field_vars, approval_vars,
                   tie_order, frame, profile, metadata,
                   issues, vret, column, detected, fields, response>>

InitRepeat ==
    /\ pc = "analyze_file"
    /\ file \in RepeatFiles
    /\ file_info = None /\ idx = 0 /\ outcome = "none" /\ opened = 0
    /\ issues = <<>> /\ vret = None /\ column = None /\ detected = None
    /\ fields = {} /\ response = None
    /\ frame = None /\ profile = None /\ metadata = None
    /\ tie_order \in {StableOrder, <<3, 2, 1>>}
    /\ RestInit

NextRepeat ==
    CheckFile \/ AnalyzeCsv \/ OpenExcel \/ AnalyzeSheet \/ ReturnExcel
    \/ RecordCall \/ AnalyzeAgain

SpecRepeat == InitRepeat /\ [][NextRepeat]_vars

\* validate_file_for_import on one file
InitValidate ==
    /\ pc = "validate"
    /\ file \in Files(FileSizes)
    /\ file_info = None /\ idx = 0 /\ outcome = "none" /\ opened = 0
    /\ issues = <<>> /\ vret = None /\ column = None /\ detected = None
    /\ fields = {} /\ response = None
    /\ frame = None /\ profile = None /\ metadata = None
    /\ RestInit
    /\ tie_order = StableOrder

NextValidate ==
    ValidateExists \/ ValidateExt \/ ValidateSize \/ ValidateRead \/ ValidateReturn

SpecValidate == InitValidate /\ [][NextValidate]_vars

\* _detect_pii on one column
InitClassify ==
    /\ pc = "_detect_pii"
    /\ column \in ClassifyColumns
    /\ file = None /\ file_info = None /\ idx = 0 /\ outcome = "none"
    /\ opened = 0 /\ issues = <<>> /\ vret = None /\ detected = None
    /\ fields = {} /\ response = None
    /\ frame = None /\ profile = None /\ metadata = None
    /\ RestInit
    /\ tie_order = StableOrder

NextClassify == Classify

SpecClassify == InitClassify /\ [][NextClassify]_vars

\* bulk_import_fields requests on one asset
InitBulk ==
    /\ pc = "bulk_import"
    /\ fields = {} /\ response = None
    /\ file = None /\ file_info = None /\ idx = 0 /\ outcome = "none"
    /\ opened = 0 /\ issues = <<>> /\ vret = None /\ column = None
    /\ detected = None
    /\ frame = None /\ profile = None /\ metadata = None
    /\ RestInit
    /\ tie_order = StableOrder

NextBulk == BulkImport

SpecBulk == InitBulk /\ [][NextBulk]_vars

\* _analyze_dataframe on one table
InitSheet ==
    /\ pc = "_analyze_dataframe"
    /\ frame \in SheetFrames
    /\ profile = None /\ metadata = None
    /\ file = None /\ file_info = None /\ idx = 0 /\ outcome = "none"
    /\ opened = 0 /\ issues = <<>> /\ vret = None /\ column = None
    /\ detected = None /\ fields = {} /\ response = None
    /\ tie_order \in TieOrders
    /\ RestInit

NextSheet == ProfileSheet

SpecSheet == InitSheet /\ [][NextSheet]_vars

Init == InitAnalyze \/ InitRepeat \/ InitUpload \/ InitFields \/ InitAssets \/ InitValidate \/ InitClassify \/ InitBulk \/ InitSheet

Next == NextAnalyze \/ NextRepeat \/ NextUpload \/ NextFields \/ NextAssets \/ NextValidate \/ NextClassify \/ NextBulk \/ NextSheet

Spec == Init /\ [][Next]_vars

-----------------------------------------------------------------------------
(* Properties                                                              *)

HasError(entry) == "error" \in DOMAIN entry

\* a sheet that cannot be loaded, or that holds a header that is not text
SheetFails(sheet) ==
    \/ ~sheet.loads
    \/ \E i \in 1..Len(sheet.df.columns) : sheet.df.columns[i].name.k # "str"

IsWorkbook(f) == f.exists /\ ~f.corrupt /\ f.path \in ExcelPaths

\* C1: for a workbook that opens, analyze_file returns normally with exactly
\* one entry per sheet, in workbook order; the entry of a sheet whose load or
\* profiling fails holds only name and error, every other sheet is analyzed;
\* while the loop runs there is one entry per sheet visited and no exception
\* has left the loop.
C1_OneEntryPerSheet ==
    /\ (pc = "sheet_loop") =>
          /\ outcome = "none"
          /\ Len(file_info.sheets) = idx - 1
    /\ (pc = "done" /\ IsWorkbook(file)) =>
          /\ outcome = "ok"
          /\ Len(file_info.sheets) = Len(file.sheets)
          /\ \A i \in 1..Len(file.sheets) :
                LET e == file_info.sheets[i]
                    sh == file.sheets[i]
                IN  /\ e.name = sh.name
                    /\ IF SheetFails(sh)
                       THEN DOMAIN e = {"name", "error"}
                       ELSE /\ ~HasError(e)
                            /\ e.row_count = sh.df.nrows
                            /\ e.column_count = Len(sh.df.columns)
                            /\ Len(e.columns) = Len(sh.df.columns)

\* C1 witness: a three-sheet workbook whose second sheet cannot be loaded has
\* been analyzed: three entries, the second an error, the third analyzed.
C1_Witness ==
    /\ pc = "done" /\ outcome = "ok"
    /\ Len(file.sheets) = 3
    /\ file.sheets[1].loads /\ ~file.sheets[2].loads /\ file.sheets[3].loads
    /\ file.sheets[3].df = DfNotes
    /\ Len(file_info.sheets) = 3
    /\ HasError(file_info.sheets[2])
    /\ ~HasError(file_info.sheets[3])

RowCountOf(entry) == IF HasError(entry) THEN 0 ELSE entry.row_count
ColumnCountOf(entry) == IF HasError(entry) THEN 0 ELSE entry.column_count

RECURSIVE SumRows(_)
SumRows(entries) ==
    IF entries = <<>> THEN 0
    ELSE RowCountOf(Head(entries)) + SumRows(Tail(entries))

RECURSIVE SumColumns(_)
SumColumns(entries) ==
    IF entries = <<>> THEN 0
    ELSE ColumnCountOf(Head(entries)) + SumColumns(Tail(entries))

\* C2: whenever a file_info exists (during the sheet loop and on return, for
\* a workbook or a CSV file), total_rows and total_columns are the sums of
\* row_count and column_count over the entries without an error key.
C2_TotalsAreSums ==
    file_info # None =>
        /\ file_info.total_rows = SumRows(file_info.sheets)
        /\ file_info.total_columns = SumColumns(file_info.sheets)

\* C2 witness: a sheet with a numeric header failed in profiling after an
\* earlier sheet was added, and a later sheet was added after it.
C2_Witness ==
    /\ pc = "done" /\ outcome = "ok"
    /\ Len(file.sheets) = 3
    /\ file.sheets[1].df = DfScenario
    /\ file.sheets[2].df = DfYears
    /\ file.sheets[3].df = DfNotes
    /\ HasError(file_info.sheets[2])
    /\ file_info.total_rows = 7
    /\ file_info.total_columns = 4

\* C3: an existing file whose extension is not .xlsx, .xls or .csv in any
\* letter case ends in the unsupported-format error with no open or parse
\* attempt made; a file with one of the three extensions never ends in it.
C3_UnsupportedRejectedFirst ==
    /\ (pc = "done" /\ file.exists /\ file.path \in OtherPaths) =>
          (outcome = "ValueError" /\ opened = 0 /\ file_info = None)
    /\ (file.path \in CsvPaths \cup ExcelPaths) => outcome # "ValueError"
    /\ outcome = "ValueError" => opened = 0

\* C3 witness: an existing .csv.zip file was rejected.
C3_Witness ==
    /\ pc = "done" /\ file.exists
    /\ file.path = <<"d","a","t","a",".","c","s","v",".","z","i","p">>
    /\ outcome = "ValueError"

\* C4: a path that does not exist ends in FileNotFoundError, whatever its
\* extension, not in the unsupported-format error or the generic exception,
\* and nothing was opened.
C4_MissingFileFirst ==
    (pc = "done" /\ ~file.exists) =>
        (outcome = "FileNotFoundError" /\ opened = 0)

\* C4 witness: a missing path with an unsupported extension was analyzed.
C4_Witness ==
    /\ pc = "done" /\ ~file.exists
    /\ file.path = <<"n","o","t","e","s",".","t","x","t">>
    /\ outcome = "FileNotFoundError"

IssueIf(cond, issue) == IF cond THEN <<issue>> ELSE <<>>

\* the first record of an existing file cannot be read
Unreadable(f) == f.corrupt \/ (f.path \notin CsvPaths /\ ~f.sheets[1].loads)

\* C5 as stated: the issue list names every check that applies, in the order
\* missing file, unsupported extension, size, read failure; a missing file
\* with an unsupported extension reports both.
C5_AllIssuesCollected ==
    pc = "validated" =>
        vret.issues =
            IssueIf(~file.exists, "File does not exist")
            \o IssueIf(file.path \in OtherPaths, "Unsupported file format")
            \o IssueIf(file.exists /\ file.size > 52428800, "File too large")
            \o IssueIf(file.exists /\ Unreadable(file), "File read error")

\* C5 amended: a missing file yields the single issue "File does not exist";
\* for an existing file the list names each of the three other checks that
\* applies, in the order extension, size, read failure.
C5_CollectedForExistingFile ==
    pc = "validated" =>
        vret.issues =
            IF ~file.exists THEN <<"File does not exist">>
            ELSE IssueIf(file.path \in OtherPaths, "Unsupported file format")
                 \o IssueIf(file.size > 52428800, "File too large")
                 \o IssueIf(Unreadable(file), "File read error")

\* C5 witness: an existing, oversized, unreadable file with an unsupported
\* extension was validated and all three issues were reported.
C5_Witness ==
    /\ pc = "validated" /\ file.exists
    /\ file.path \in OtherPaths /\ file.size > 52428800 /\ file.corrupt
    /\ vret.issues = <<"Unsupported file format", "File too large",
                       "File read error">>

\* C6: validation never raises, ok is true exactly when the issue list is
\* empty, a readable file of at most 50 MB with a supported extension yields
\* (true, []), and the size issue is reported exactly for sizes above
\* 50*1024*1024 bytes.
C6_NeverRaisesOkIffEmpty ==
    pc = "validated" =>
        /\ vret.exc = "none"
        /\ vret.ok <=> (vret.issues = <<>>)
        /\ (file.exists /\ file.path \notin OtherPaths /\ ~Unreadable(file)
              /\ file.size <= 52428800)
           => (vret.ok /\ vret.issues = <<>>)
        /\ file.exists =>
              (("File too large" \in SeqRange(vret.issues))
                  <=> file.size >= 52428801)

\* C6 witness: a readable workbook of exactly 50 MB was validated.
C6_Witness ==
    /\ pc = "validated" /\ file.exists /\ file.size = 52428800
    /\ file.path \in ExcelPaths /\ ~Unreadable(file)
    /\ vret.ok /\ vret.issues = <<>>

\* the column names used here that hold a PII keyword in some letter case
NamesWithKeyword ==
    { StrName(T_customer_email_address), StrName(T_DOB),
      StrName(T_account_no), StrName(T_Surname), StrName(T_PHONE) }

\* C7: a column whose name holds a PII keyword is flagged, whatever its
\* values, and the content check is not reached.
C7_NameRule ==
    (pc = "classified" /\ column.name \in NamesWithKeyword) =>
        (detected.exc = "none" /\ detected.value /\ ~detected.inspected)

\* C7 witness: an all-null column named Customer_Email_Address was flagged.
C7_Witness ==
    /\ pc = "classified"
    /\ column.name = StrName(T_customer_email_address)
    /\ column.runs = <<[v |-> Null, n |-> 1]>>
    /\ detected.value

\* the values used here that match the email, phone or SSN pattern
MatchingValues == {StrCell(T_bob), StrCell(T_ssn_value), IntCell(1234567890)}

NamesWithoutKeyword == {StrName(T_id), StrName(T_amount), StrName(T_notes)}

\* C8: for a column whose name holds no PII keyword, the flag is true exactly
\* when one of the first 100 non-null values matches a pattern.
C8_ContentRule ==
    (pc = "classified" /\ column.name \in NamesWithoutKeyword) =>
        LET nonnull == SelectSeq(Expand(column.runs), NotNull)
        IN  /\ detected.exc = "none"
            /\ detected.value <=>
                  \E i \in 1..Len(nonnull) : i <= 100 /\ nonnull[i] \in MatchingValues

\* C8 witness: the only matching value is the 101st non-null value and the
\* column was not flagged.
C8_Witness ==
    /\ pc = "classified"
    /\ column.name = StrName(T_notes)
    /\ column.runs = <<[v |-> StrCell(T_hello), n |-> 100],
                       [v |-> StrCell(T_bob), n |-> 1]>>
    /\ ~detected.value

\* C9 as stated: classification never lets an error out, whatever the column
\* name and content.
C9_NeverPropagates ==
    pc = "classified" => detected.exc = "none"

\* C10 as stated: bulk import flags a field as PII exactly when the name rule
\* of the column profiler would.
C10_SameNameRule ==
    \A r \in fields : r.contains_pii <=> NameHasIndicator(r.field_name.s)

\* the flags a field name used here is to get from bulk import: the PII
\* keywords are those of the bulk import route, the PHI and PCI keywords
\* those of the two category sets
ExpectedBulkFlags(field_name) ==
    [pii |-> field_name \in {StrName(T_email), StrName(T_patient_email)},
     phi |-> field_name \in {StrName(T_patient_id), StrName(T_patient_email)},
     pci |-> field_name \in {StrName(T_card_number)}]

\* C11: every field created by bulk import carries three flags, each true
\* exactly when the lower-cased name holds a keyword of its own category,
\* whatever the other two flags are.
C11_ThreeIndependentFlags ==
    \A r \in fields :
        /\ r.contains_pii = ExpectedBulkFlags(r.field_name).pii
        /\ r.contains_phi = ExpectedBulkFlags(r.field_name).phi
        /\ r.contains_pci = ExpectedBulkFlags(r.field_name).pci

\* C11 witness: the asset holds a field with two flags set, a field with
\* only the PHI flag, one with only the PCI flag and one with no flag.
C11_Witness ==
    /\ \E r \in fields : r.contains_pii /\ r.contains_phi /\ ~r.contains_pci
    /\ \E r \in fields : ~r.contains_pii /\ r.contains_phi /\ ~r.contains_pci
    /\ \E r \in fields : ~r.contains_pii /\ ~r.contains_phi /\ r.contains_pci
    /\ \E r \in fields : ~r.contains_pii /\ ~r.contains_phi /\ ~r.contains_pci

\* _analyze_dataframe has returned a profile of the table
Profiled == pc = "profiled" /\ profile.exc = "none"

\* the cells of the table and those of them that hold no value
CellsOf(t) == (1..Len(t.columns)) \X (1..t.nrows)
NullCellsOf(t) == {x \in CellsOf(t) : t.columns[x[1]].values[x[2]] = Null}

\* the column holds a value that is not null
HasValue(t, c) == \E i \in 1..t.nrows : t.columns[c].values[i] # Null

\* C15: a sheet's completeness is (total_cells - null_count) / total_cells
\* * 100 rounded to 2 decimals, with total_cells = rows * columns: a value
\* in [0, 100], 100.0 when no cell is null and there is at least one cell, 0
\* when there is no cell, and 88.89 for the 3 x 3 table with one null.
C15_Completeness ==
    Profiled =>
        LET c == profile.info.data_quality.completeness
            total_cells == Cardinality(CellsOf(frame))
            filled == total_cells - Cardinality(NullCellsOf(frame))
        IN  /\ c.k = "float"
            /\ c.n >= 0 /\ c.n <= 10000
            /\ total_cells = 0 => c.n = 0
            /\ total_cells > 0 =>
                  /\ 2 * (c.n * total_cells - filled * 10000) <= total_cells
                  /\ 2 * (filled * 10000 - c.n * total_cells) <= total_cells
            /\ (total_cells > 0 /\ filled = total_cells) => c.n = 10000
            /\ frame = DfScenario => c.n = 8889

\* C15 witness: the 3 x 3 table with one null has been profiled and its
\* completeness is 88.89.
C15_Witness ==
    /\ Profiled
    /\ frame = DfScenario
    /\ Cardinality(NullCellsOf(frame)) = 1
    /\ profile.info.data_quality.completeness = Float(8889)

\* rows i and j of the table hold the same values
SameRow(t, i, j) ==
    \A c \in 1..Len(t.columns) : t.columns[c].values[i] = t.columns[c].values[j]

\* C16: duplicate_rows is the number of rows that are equal, in every
\* column, to some earlier row of the sheet; k identical rows count k - 1.
C16_DuplicateRows ==
    Profiled =>
        LET d == profile.info.data_quality.duplicate_rows
        IN  /\ d = Cardinality({i \in 1..frame.nrows :
                                  \E j \in 1..(i - 1) : SameRow(frame, i, j)})
            /\ (/\ frame.nrows > 0
                /\ \A i \in 1..frame.nrows : SameRow(frame, i, 1))
               => d = frame.nrows - 1

\* C16 witness: a table of two columns whose three rows are the same has
\* been profiled with 2 duplicate rows.
C16_Witness ==
    /\ Profiled
    /\ frame.nrows = 3
    /\ Len(frame.columns) = 2
    /\ \A i \in 1..3 : SameRow(frame, i, 1)
    /\ HasValue(frame, 1)
    /\ profile.info.data_quality.duplicate_rows = 2

\* C17: in every column profile is_unique is true exactly when
\* unique_count equals row_count and row_count is positive; for a sheet
\* without rows it is false.
C17_UniqueOnlyWithRows ==
    Profiled =>
        \A c \in 1..Len(profile.info.columns) :
            LET col == profile.info.columns[c]
            IN  col.is_unique <=>
                    (col.unique_count = frame.nrows /\ frame.nrows > 0)

NumericKeys == {"min_value", "max_value", "mean_value", "median_value", "std_value"}
TextKeys == {"min_length", "max_length", "avg_length", "most_common"}
DatetimeKeys == {"min_date", "max_date", "date_range_days"}

\* the profile carries no key of any type-specific block
NoStatBlock(col) ==
    DOMAIN col \cap (NumericKeys \cup TextKeys \cup DatetimeKeys) = {}

\* C18 as stated: every column of a sheet without rows has null_percentage
\* 0, no type-specific block and contains_pii false, whatever its name.
C18_NoRowsNoFindings ==
    (Profiled /\ frame.nrows = 0) =>
        \A c \in 1..Len(profile.info.columns) :
            LET col == profile.info.columns[c]
            IN  /\ col.null_percentage = Float(0)
                /\ NoStatBlock(col)
                /\ col.contains_pii = FALSE

\* C18 amended: every column of a sheet without rows has null_percentage 0
\* and no type-specific block, and its contains_pii is true exactly when
\* its name holds a PII keyword (here: Surname).
C18_NoRowsNameRuleOnly ==
    (Profiled /\ frame.nrows = 0) =>
        \A c \in 1..Len(profile.info.columns) :
            LET col == profile.info.columns[c]
            IN  /\ col.null_percentage = Float(0)
                /\ NoStatBlock(col)
                /\ col.contains_pii <=> (frame.columns[c].name = StrName(T_Surname))

\* C18 witness: a sheet without rows and with the columns Surname and
\* amount has been profiled; Surname is flagged, amount is not.
C18_Witness ==
    /\ Profiled
    /\ frame.nrows = 0
    /\ Len(frame.columns) = 2
    /\ frame.columns[1].name = StrName(T_Surname)
    /\ profile.info.columns[1].contains_pii
    /\ ~profile.info.columns[2].contains_pii
    /\ NoStatBlock(profile.info.columns[1])

\* C19: a column with at least one row and no value but nulls has no
\* type-specific block, whatever its type.
C19_AllNullNoStats ==
    Profiled =>
        \A c \in 1..Len(frame.columns) :
            (/\ frame.nrows > 0
             /\ \A i \in 1..frame.nrows : frame.columns[c].values[i] = Null)
            => NoStatBlock(profile.info.columns[c])

\* the block a column profile is to carry for its data_type, if any
BlockFor(data_type) ==
    IF data_type \in {"int64", "float64"} THEN NumericKeys
    ELSE IF data_type = "object" THEN TextKeys
    ELSE IF data_type = "datetime64[ns]" THEN DatetimeKeys
    ELSE {}

\* the keys of type-specific blocks in a column profile are those of one
\* block, complete, and it is the block of the column's data_type
OneMatchingBlock(col) ==
    LET present == DOMAIN col \cap (NumericKeys \cup TextKeys \cup DatetimeKeys)
    IN  present # {} => present = BlockFor(col.data_type)

\* C20 as stated: at most one block, matching the type, absent only for a
\* column without values; so every column with a value, boolean columns
\* included, has a block.
C20_OneBlockEveryType ==
    Profiled =>
        \A c \in 1..Len(profile.info.columns) :
            LET col == profile.info.columns[c]
            IN  /\ OneMatchingBlock(col)
                /\ HasValue(frame, c) => ~NoStatBlock(col)

\* C20 amended: at most one block, matching the type; a column with a
\* value has exactly the block of its type when it is numeric, text or
\* datetime, and no block when it is boolean.
C20_OneBlockButBoolean ==
    Profiled =>
        \A c \in 1..Len(profile.info.columns) :
            LET col == profile.info.columns[c]
            IN  /\ OneMatchingBlock(col)
                /\ HasValue(frame, c) =>
                      IF \A i \in 1..frame.nrows :
                             frame.columns[c].values[i].k = "bool"
                      THEN NoStatBlock(col)
                      ELSE /\ ~NoStatBlock(col)
                           /\ BlockFor(col.data_type) \subseteq DOMAIN col

\* C20 witness: a boolean column with values has been profiled without a
\* block, next to a numeric column with its numeric block.
C20_Witness ==
    /\ Profiled
    /\ Len(frame.columns) = 2
    /\ frame.nrows = 2
    /\ \A i \in 1..2 : frame.columns[1].values[i].k = "bool"
    /\ profile.info.columns[1].data_type = "bool"
    /\ NoStatBlock(profile.info.columns[1])
    /\ HasValue(frame, 2)
    /\ NumericKeys \subseteq DOMAIN profile.info.columns[2]

\* generate_asset_metadata has returned for the analysis in file_info
Suggested == pc = "suggested"

\* some sheet entry of the analysis has a column flagged contains_pii
SomeColumnFlagged ==
    \E i \in 1..Len(file_info.sheets) :
        /\ ~HasError(file_info.sheets[i])
        /\ \E c \in 1..Len(file_info.sheets[i].columns) :
               file_info.sheets[i].columns[c].contains_pii

HasTag(tag) == \E t \in 1..Len(metadata.tags) : metadata.tags[t] = tag

\* C12: is_sensitive is true exactly when some column of some sheet has
\* contains_pii; access_level is 'Restricted' exactly when is_sensitive and
\* 'Internal' otherwise; the tag 'contains-pii' is present exactly when
\* is_sensitive; also when some sheets carry an error.
C12_SensitiveIffPii ==
    Suggested =>
        /\ metadata.is_sensitive <=> SomeColumnFlagged
        /\ metadata.access_level =
              (IF metadata.is_sensitive THEN "Restricted" ELSE "Internal")
        /\ HasTag("contains-pii") <=> metadata.is_sensitive
        /\ (IsWorkbook(file) /\ \A i \in 1..Len(file.sheets) :
                                   file.sheets[i].df \in {DfClean, None})
           => ~metadata.is_sensitive
        /\ (IsWorkbook(file) /\ \E i \in 1..Len(file.sheets) :
                                   file.sheets[i].df = DfScenario)
           => metadata.is_sensitive

\* C12 witness: metadata has been suggested for a workbook whose first
\* sheet failed, whose second sheet has no flagged column and whose third
\* sheet has one: sensitive, Restricted, tagged.
C12_Witness ==
    /\ Suggested
    /\ Len(file_info.sheets) = 3
    /\ HasError(file_info.sheets[1])
    /\ file.sheets[2].df = DfClean
    /\ file.sheets[3].df = DfScenario
    /\ metadata.is_sensitive
    /\ metadata.access_level = "Restricted"
    /\ HasTag("contains-pii")

\* C13: the tag 'high-quality' is present exactly when some sheet has a
\* completeness above 95, the tag 'large-dataset' exactly when total_rows
\* is above 10000 (not for 10000 rows, for 15000 rows), and there is no tag
\* but these two and 'contains-pii'.
C13_QualityAndSizeTags ==
    Suggested =>
        /\ HasTag("high-quality") <=>
              \E i \in 1..Len(file_info.sheets) :
                  /\ ~HasError(file_info.sheets[i])
                  /\ file_info.sheets[i].data_quality.completeness.n > 9500
        /\ HasTag("large-dataset") <=> file_info.total_rows > 10000
        /\ \A t \in 1..Len(metadata.tags) :
              metadata.tags[t] \in {"high-quality", "contains-pii", "large-dataset"}
        /\ file.sheets = OneSheet(DfRows(10000)) => ~HasTag("large-dataset")
        /\ file.sheets = OneSheet(DfRows(15000)) => HasTag("large-dataset")
        /\ file.sheets = OneSheet(DfNinetyFive) => ~HasTag("high-quality")
        /\ file.sheets = OneSheet(DfClean) => HasTag("high-quality")

\* C13 witness: metadata has been suggested for a file of 15000 complete
\* rows, with both tags.
C13_Witness ==
    /\ Suggested
    /\ file.sheets = OneSheet(DfRows(15000))
    /\ file_info.total_rows = 15000
    /\ metadata.tags = <<"high-quality", "large-dataset">>

\* the sum of the completeness values of the entries without error, in
\* hundredths, and their number
RECURSIVE SumCompleteness(_)
SumCompleteness(entries) ==
    IF entries = <<>> THEN 0
    ELSE (IF HasError(Head(entries)) THEN 0
          ELSE Head(entries).data_quality.completeness.n)
         + SumCompleteness(Tail(entries))

RECURSIVE CountParsed(_)
CountParsed(entries) ==
    IF entries = <<>> THEN 0
    ELSE (IF HasError(Head(entries)) THEN 0 ELSE 1) + CountParsed(Tail(entries))

\* C14: data_quality_score is the mean completeness of the sheets without
\* error, divided by 100 and rounded to 3 decimals: a value in [0, 1], 0
\* when no sheet was parsed; sheets with an error do not count.
C14_QualityScore ==
    Suggested =>
        LET total == SumCompleteness(file_info.sheets)
            n == CountParsed(file_info.sheets)
            score == metadata.data_quality_score
        IN  /\ score >= 0 /\ score <= 1000
            /\ n = 0 => score = 0
            /\ n > 0 => /\ 2 * (score * n * 10 - total) <= n * 10
                        /\ 2 * (total - score * n * 10) <= n * 10
            /\ file.sheets = OneSheet(DfScenario) => score = 889

\* C14 witness: metadata has been suggested for a workbook with a failed
\* sheet, a complete sheet and the scenario sheet: the score is the mean
\* of 100 and 88.89 over 100, 0.944.
C14_Witness ==
    /\ Suggested
    /\ Len(file_info.sheets) = 3
    /\ HasError(file_info.sheets[2])
    /\ file.sheets[1].df = DfClean
    /\ file.sheets[3].df = DfScenario
    /\ metadata.data_quality_score = 944

\* how often v occurs in a column, and where it occurs first
Occurrences(vals, v) == Cardinality({i \in 1..Len(vals) : vals[i] = v})
FirstMet(vals, v) ==
    CHOOSE i \in 1..Len(vals) : vals[i] = v /\ \A j \in 1..(i - 1) : vals[j] # v

\* C21: the most_common list of a text block holds at most 5 distinct
\* non-null values of the column, most frequent first, equally frequent
\* values in the order in which the column first shows them, and no value
\* left out is more frequent than a value in the list.
C21_MostCommonOrder ==
    Profiled =>
        \A c \in 1..Len(profile.info.columns) :
            "most_common" \in DOMAIN profile.info.columns[c] =>
                LET top == profile.info.columns[c].most_common
                    vals == frame.columns[c].values
                IN  /\ Len(top) <= 5
                    /\ \A r \in 1..Len(top) :
                          /\ top[r] # Null
                          /\ \E i \in 1..Len(vals) : vals[i] = top[r]
                    /\ \A r, q \in 1..Len(top) : r < q =>
                          /\ top[r] # top[q]
                          /\ Occurrences(vals, top[r]) >= Occurrences(vals, top[q])
                          /\ Occurrences(vals, top[r]) = Occurrences(vals, top[q])
                             => FirstMet(vals, top[r]) < FirstMet(vals, top[q])
                    /\ \A i \in 1..Len(vals) :
                          (vals[i] # Null /\ \A r \in 1..Len(top) : top[r] # vals[i])
                          => \A r \in 1..Len(top) :
                                Occurrences(vals, vals[i]) <= Occurrences(vals, top[r])

\* the fields of a FileAnalysis but the analysis timestamp
SameButDate(a, b) ==
    /\ DOMAIN a = DOMAIN b
    /\ \A k \in DOMAIN a \ {"analysis_date"} : a[k] = b[k]

C23_HandlesReleased ==
    pc \in {"done", "returned", "suggested"} => handles = {}

\* an answered request whose upload carries one of the supported endings
SupportedUpload(r) ==
    /\ reqs[r].pc = "responded"
    /\ reqs[r].error \notin {"No file provided", "No file selected"}
    /\ SplitExt(reqs[r].filename) \in supported_formats

\* C24: an upload whose name ends in .csv, .xlsx or .xls passes the
\* extension check of POST /analyze and reaches the validator and the
\* analyzer, and POST /validate raises no extension issue for it.
C24_SupportedFormatsAccepted ==
    \A r \in DOMAIN reqs :
        SupportedUpload(r) =>
            /\ reqs[r].route = "analyze"
               => reqs[r].error # "File type not allowed"
            /\ reqs[r].route = "validate"
               => \A i \in 1..Len(reqs[r].analysis.issues) :
                     reqs[r].analysis.issues[i] # "File type not allowed"

\* a request that has saved its upload and has not answered yet
InFlight(r) ==
    reqs[r].pc \in {"analyze", "commit", "respond", "except"}

\* C26: two requests served at the same time never hold the same saved
\* path, and the file a request saved is still there when it analyses it.
C26_DistinctSavedPaths ==
    /\ \A a, b \in DOMAIN reqs :
          (a # b /\ InFlight(a) /\ InFlight(b))
          => reqs[a].file_path # reqs[b].file_path
    /\ \A r \in DOMAIN reqs :
          reqs[r].pc = "analyze" => reqs[r].file_path \in DOMAIN uploads

\* the assets POST /import created for request r
AssetsOf(r) == {a \in assets : a.submitted_by_user_id = r}

\* C27, first part: an asset imported from a file with a flagged column is
\* sensitive and 'Restricted' whatever the caller sent; without a flagged
\* column the values of the caller, or their defaults, are taken.
C27_DetectedSensitivityWins ==
    \A r \in DOMAIN reqs : \A a \in AssetsOf(r) :
        IF AnyPii(reqs[r].analysis.info)
        THEN a.is_sensitive = TRUE /\ a.access_level = "Restricted"
        ELSE /\ a.is_sensitive = GetOr(reqs[r].asset_data.is_sensitive, FALSE)
             /\ a.access_level = GetOr(reqs[r].asset_data.access_level, "Internal")

\* C27: detected sensitivity cannot be overridden by the caller, and an
\* import that failed leaves neither an asset row nor its saved file.
C27_SensitivityAndCleanFailure ==
    /\ C27_DetectedSensitivityWins
    /\ \A r \in DOMAIN reqs :
          (reqs[r].route = "import" /\ reqs[r].pc = "responded"
           /\ reqs[r].status = 500)
          => /\ AssetsOf(r) = {}
             /\ reqs[r].file_path \notin DOMAIN uploads

\* the rows of data_fields created by request s
RowsOf(s) ==
    {k \in 1..Len(data_fields) : data_fields[k].created_by_user_id = s}

\* no two rows of the asset carry the same field_name
UniqueFieldNames ==
    \A k, m \in 1..Len(data_fields) :
        k # m => data_fields[k].field_name # data_fields[m].field_name

\* a bulk import that failed has committed nothing; a bulk import that
\* succeeded has committed one row for each name it reports, each name once
AllOrNothing ==
    \A s \in DOMAIN sessions :
        /\ (sessions[s].op = "bulk" /\ sessions[s].pc = "responded"
            /\ sessions[s].status >= 400)
           => RowsOf(s) = {}
        /\ (sessions[s].op = "bulk" /\ sessions[s].status = 200)
           => /\ Cardinality(RowsOf(s)) = Len(sessions[s].imported)
              /\ \A k \in 1..Len(sessions[s].imported) :
                    \E m \in RowsOf(s) :
                        data_fields[m].field_name = sessions[s].imported[k]

\* a step leaves every row there is as it is
ExistingFieldsKept ==
    /\ Len(data_fields') >= Len(data_fields)
    /\ \A k \in 1..Len(data_fields) : data_fields'[k] = data_fields[k]

\* C28: under every interleaving of create_data_field and
\* bulk_import_fields no asset has two fields of the same name, a bulk
\* import leaves the fields there are unchanged and adds a name once even
\* when the schema has it twice, and a bulk import that fails commits none
\* of its fields.
C28_UniqueFieldNames ==
    /\ [](UniqueFieldNames /\ AllOrNothing)
    /\ [][ExistingFieldsKept]_vars

\* C28 witness: a bulk import of a schema that names dob twice was served
\* for an asset that had an email field, and added dob once, while a
\* create_data_field for dob that had passed its duplicate check failed on
\* the unique constraint.
C28_Witness ==
    /\ Len(data_fields) = 2
    /\ data_fields[1].created_by_user_id = 0
    /\ \E s, q \in DOMAIN sessions :
          /\ sessions[s].op = "bulk" /\ sessions[s].status = 200
          /\ sessions[s].columns = <<StrName(T_dob), StrName(T_dob)>>
          /\ sessions[s].imported = <<StrName(T_dob)>>
          /\ sessions[q].op = "create" /\ sessions[q].status = 500
          /\ sessions[q].field_name = StrName(T_dob)

\* the step serves a request of route op
Serves(op) == response' # response /\ response'.op = op

\* the step changes neither the asset nor its approval history
NothingChanged == asset' = asset /\ approval_history' = approval_history

\* the step adds one entry to the approval history, for this transition
OneEntryLogged(action) ==
    /\ Len(approval_history') = Len(approval_history) + 1
    /\ SubSeq(approval_history', 1, Len(approval_history)) = approval_history
    /\ approval_history'[Len(approval_history')] =
          LogAction(action, "Pending", asset'.approval_status, {})

\* what C29 asks of one step
DecisionStep ==
    /\ (Serves("approve") \/ Serves("reject")) /\ asset.approval_status # "Pending"
       => response'.status = 400 /\ NothingChanged
    /\ (Serves("reject") /\ response'.reason = <<>>)
       => response'.status = 400 /\ NothingChanged
    /\ (Serves("approve") \/ Serves("reject")) /\ ~NothingChanged
       => /\ response'.status = 200
          /\ asset.approval_status = "Pending"
          /\ asset'.approval_status =
                (IF Serves("approve") THEN "Approved" ELSE "Rejected")
          /\ OneEntryLogged(IF Serves("approve") THEN "approved" ELSE "rejected")
    /\ (asset'.approval_status \in {"Approved", "Rejected"}
        /\ asset'.approval_status # asset.approval_status)
       => /\ asset.approval_status = "Pending"
          /\ Serves("approve") \/ Serves("reject")

\* C29: approve_asset and reject_asset act on a 'Pending' asset only: on
\* any other asset, and for a reject without a reason, they answer with an
\* error and change neither the asset nor the approval history; an asset
\* becomes 'Approved' or 'Rejected' only out of 'Pending', and every such
\* transition is committed with exactly one history entry.
C29_DecisionsOnlyOnPending == [][DecisionStep]_vars

\* C29 witness: the asset was approved, which logged one entry, and a
\* reject with a reason was then answered 400 and changed nothing.
C29_Witness ==
    /\ pc = "assets"
    /\ response.op = "reject" /\ response.status = 400
    /\ response.reason = <<"incomplete schema">>
    /\ asset.approval_status = "Approved"
    /\ approval_history = <<LogAction("approved", "Pending", "Approved", {})>>

\* the step changes one of the significant fields
SignificantChange ==
    \/ asset'.asset_name # asset.asset_name
    \/ asset'.description # asset.description
    \/ asset'.source_system # asset.source_system
    \/ asset'.schema_info # asset.schema_info

\* what C30 asks of one step
UpdateStep ==
    Serves("update") =>
        /\ asset'.approval_status # asset.approval_status
           => /\ asset.approval_status = "Approved"
              /\ asset'.approval_status = "Pending"
              /\ SignificantChange
        /\ (asset.approval_status = "Approved" /\ SignificantChange)
           => asset'.approval_status = "Pending"
        /\ asset.approval_status = "Rejected"
           => asset'.approval_status = "Rejected"

\* C30: update_asset changes approval_status only when it changes
\* asset_name, description, source_system or schema_info of an 'Approved'
\* asset, which goes back to 'Pending'; in every other case the status is
\* kept, so updates never move an asset out of 'Rejected'.
C30_UpdateResetsApprovedOnly == [][UpdateStep]_vars

\* C30 witness: an approved asset was updated with a new schema_info and is
\* 'Pending' again, the reset being logged with the update.
C30_Witness ==
    /\ pc = "assets"
    /\ response.op = "update" /\ response.status = 200
    /\ asset.approval_status = "Pending"
    /\ asset.schema_info = "v2"
    /\ Len(approval_history) = 2
    /\ approval_history[1].action = "approved"
    /\ approval_history[2] =
          LogAction("updated", "", "Pending", {"schema_info", "approval_status"})

=============================================================================
